---- MODULE Spec2Model ----
(***************************************************************************)
(* mgit: the sync engine (cli/src/commands/sync.rs), the manifest entry    *)
(* helpers (cli/src/config/repo.rs) and the git driver (core/src/core/     *)
(* git.rs), as a state machine.  git itself is an external program: each   *)
(* driver call is modelled by its effect on an abstract repository state   *)
(* (one tracked file, one possible untracked file, a stash stack).         *)
(***************************************************************************)
EXTENDS Integers, Sequences, FiniteSets, TLC

VARIABLES
    cfgFile,    \* the manifest file on disk: "missing", "unparseable" or "ok"
    config,     \* the parsed TomlConfig: [version, default_branch, default_remote, repos]
    opts,       \* the command's options: stash_mode, silent, no_track, no_checkout, thread_count, ignore
    rootDir,    \* input_path.is_dir()
    fs,         \* the workspace: path -> repository state
    phase,      \* position of exec/inner_exec
    repos,      \* toml_repos after exclude_ignore (a sequence of entries)
    w,          \* per entry index: the worker closure's state (a record)
    counter,    \* the RelaxedCounter handing out display indices
    totalBar,   \* position of the total progress bar
    succ,       \* succ_repos: sequence of entry indices
    errs,       \* error_repos: sequence of entry indices
    faults,     \* number of environment failures injected so far
    runNo,      \* which run of the command this is
    snap,       \* fs as the previous run left it
    cleaned,    \* how many times clean::exec_clean ran in this run
    intruded,   \* pairs <<i, j>>: a step of entry i changed files of running entry j
    probe,      \* a library routine called on its own: its arguments and what it returned
    gui         \* the editor's progress bar: the shared counter, the repos, the reset threads

vars == <<cfgFile, config, opts, rootDir, fs, phase, repos, w, counter, totalBar,
          succ, errs, faults, runNo, snap, cleaned, intruded, probe, gui>>

---------------------------------------------------------------------------
\* Bounds of the model.

\* environment failures (a git call or filesystem call failing for an outside reason) per behaviour
MaxFaults == 1
\* largest thread_count tried
MaxThreads == 2
\* runs of the sync command in one behaviour
MaxRuns == 2

\* Program constants.
\* commits/<sha[..7]>: the slice length
ShortShaLen == 7
\* RelaxedCounter::new(1)
CounterStart == 1

\* Length of a full object name in the model (git: 40).
ShaLen == 8

---------------------------------------------------------------------------
\* Option<T>: None is the empty sequence, Some(x) the one-element sequence.
None == <<>>
Some(x) == <<x>>
IsSome(o) == o # <<>>
Unwrap(o) == o[1]

\* Is sequence p a prefix of sequence q
IsPrefix(p, q) == Len(p) <= Len(q) /\ SubSeq(q, 1, Len(p)) = p

---------------------------------------------------------------------------
\* The remote repository every entry points at (fixed during a behaviour).
Commits == {"c1", "c2", "c3"}
NoCommit == "none"
\* the object name of a commit: ShaLen characters
Sha(c) == [k \in 1..ShaLen |-> c]
\* version of the tracked file f in each commit (commit c3 does not touch f); 0: no tree
TreeOf(c) == CASE c = "c2" -> 2 [] c \in {"c1", "c3"} -> 1 [] OTHER -> 0
RemoteBranches == {"master", "develop"}
RemoteTip(b) == IF b = "master" THEN "c2" ELSE "c3"
RemoteTags == {"v1"}
TagTarget(t) == "c1"
Url == "url"
OtherUrl == "other"

\* A file content: version v of the committed file, edited locally or not.
Content(v, e) == [v |-> v, e |-> e]
Pristine(c) == Content(TreeOf(c), FALSE)

\* A repository directory that does not exist.
NoDir ==
    [dir |-> FALSE, git |-> FALSE, rname |-> None, rurl |-> None, fetched |-> FALSE,
     head |-> NoCommit, cur |-> None, heads |-> <<>>, idx |-> Pristine(NoCommit),
     wrk |-> Pristine(NoCommit), untracked |-> FALSE, added |-> FALSE,
     unmerged |-> FALSE, stash |-> <<>>, upstream |-> None]

\* An existing directory that is no repository.
EmptyDir == [NoDir EXCEPT !.dir = TRUE]

\* A cloned repository on local branch b at commit c with a clean working tree.
CleanRepo(b, c) ==
    [NoDir EXCEPT !.dir = TRUE, !.git = TRUE, !.rname = Some("origin"), !.rurl = Some(Url),
                  !.fetched = TRUE, !.head = c, !.cur = Some(b),
                  !.heads = (b :> c),
                  !.idx = Pristine(c), !.wrk = Pristine(c)]

\* The same with the tracked file edited in the working tree.
EditedRepo(b, c) == [CleanRepo(b, c) EXCEPT !.wrk = Content(TreeOf(c), TRUE)]

\* The same with an untracked file.
UntrackedRepo(b, c) == [CleanRepo(b, c) EXCEPT !.untracked = TRUE]

\* A repository with a detached HEAD.
DetachedRepo(b, c) == [CleanRepo(b, c) EXCEPT !.cur = None]

\* Is the tracked file, the index or the set of files different from HEAD
TrackedDirty(s) == s.idx # Pristine(s.head) \/ s.wrk # s.idx
Dirty(s) == TrackedDirty(s) \/ s.added \/ s.untracked

---------------------------------------------------------------------------
\* The git driver (core/src/core/git.rs).  A call returns [ok, s, out]: whether git
\* exited 0, the repository state it leaves, and its output where the caller reads it.

Ok(s, out) == [ok |-> TRUE, s |-> s, out |-> out]
Err(s, out) == [ok |-> FALSE, s |-> s, out |-> out]

\* any existing directory taken for a repository
is_repository_DirOnly(s) == s.dir

is_repository(s) == s.dir /\ s.git

\* the commits whose objects the repository holds
Known(s) ==
    IF s.fetched THEN Commits
    ELSE ({s.head} \cup {s.heads[b] : b \in DOMAIN s.heads}
          \cup {s.stash[k].base : k \in 1..Len(s.stash)}) \ {NoCommit}

\* git's resolution of a revision string to a commit (NoCommit: no such revision)
Resolve(s, ref) ==
    CASE ref.kind = "Commit" ->
            LET cand == {c \in Known(s) : Len(ref.val) >= 4 /\ IsPrefix(ref.val, Sha(c))}
            IN  IF Cardinality(cand) = 1 THEN CHOOSE c \in cand : TRUE ELSE NoCommit
      [] ref.kind = "Tag" ->
            IF s.fetched /\ ref.val \in RemoteTags THEN TagTarget(ref.val) ELSE NoCommit
      [] ref.kind = "Branch" ->
            IF s.fetched /\ s.rname = Some(ref.val[1]) /\ ref.val[2] \in RemoteBranches
            THEN RemoteTip(ref.val[2]) ELSE NoCommit

is_remote_ref_valid(s, ref) == is_repository(s) /\ Resolve(s, ref) # NoCommit

find_remote_name_by_url(s, url) ==
    IF is_repository(s) /\ s.rurl = Some(url) /\ IsSome(s.rname)
    THEN Ok(s, Unwrap(s.rname)) ELSE Err(s, "remote not found")

get_current_branch(s) ==
    IF is_repository(s) /\ IsSome(s.cur) /\ Unwrap(s.cur) \in DOMAIN s.heads
    THEN Ok(s, Unwrap(s.cur)) ELSE Err(s, "current branch not found.")

local_branch_already_exist(s, b) ==
    IF is_repository(s) THEN Ok(s, b \in DOMAIN s.heads) ELSE Err(s, FALSE)

init(s) ==
    IF ~s.dir THEN Err(s, "")
    ELSE IF s.git THEN Ok(s, "")
    ELSE Ok([s EXCEPT !.git = TRUE, !.cur = Some(<<"master">>)], "")

add_remote_url(s, url) ==
    IF is_repository(s) /\ s.rname # Some("origin")
    THEN Ok([s EXCEPT !.rname = Some("origin"), !.rurl = Some(url)], "")
    ELSE Err(s, "")

clean(s) ==
    IF is_repository(s) THEN Ok([s EXCEPT !.untracked = FALSE], "") ELSE Err(s, "")

\* HEAD and the current branch moved to commit t
MoveHead(s, t) ==
    [s EXCEPT !.head = t,
              !.heads = IF IsSome(s.cur) THEN (Unwrap(s.cur) :> t) @@ s.heads ELSE s.heads]

reset(s, type, ref) ==
    LET t == Resolve(s, ref) IN
    IF ~is_repository(s) \/ t = NoCommit THEN Err(s, "")
    ELSE CASE type = "--soft" ->
                IF s.unmerged THEN Err(s, "") ELSE Ok(MoveHead(s, t), "")
           [] type = "--mixed" ->
                Ok([MoveHead(s, t) EXCEPT !.idx = Pristine(t), !.unmerged = FALSE,
                                          !.added = FALSE,
                                          !.untracked = s.untracked \/ s.added], "")
           [] type = "--hard" ->
                Ok([MoveHead(s, t) EXCEPT !.idx = Pristine(t), !.wrk = Pristine(t),
                                          !.unmerged = FALSE, !.added = FALSE], "")

add_untracked_files(s) ==
    IF ~is_repository(s) THEN Err(s, "")
    ELSE IF ~s.untracked THEN Ok(s, "not found any unchecked file to add")
    ELSE Ok([s EXCEPT !.untracked = FALSE, !.added = TRUE], "")

\* out: "WIP" when an entry was saved, "No local changes to save" otherwise
stash(s) ==
    LET a == add_untracked_files(s) IN
    IF ~a.ok THEN Err(s, "")
    ELSE IF a.s.head = NoCommit \/ a.s.unmerged THEN Err(a.s, "")
    ELSE IF ~Dirty(a.s) THEN Ok(a.s, "No local changes to save")
    ELSE Ok([a.s EXCEPT !.stash = <<[base |-> a.s.head, idx |-> a.s.idx, wrk |-> a.s.wrk,
                                     added |-> a.s.added]>> \o a.s.stash,
                        !.idx = Pristine(a.s.head), !.wrk = Pristine(a.s.head),
                        !.added = FALSE], "WIP")

stash_pop(s) ==
    IF ~is_repository(s) \/ s.stash = <<>> THEN Err(s, "")
    ELSE LET top == s.stash[1]
             edited == top.wrk # Pristine(top.base) \/ top.idx # Pristine(top.base)
         IN  IF s.unmerged \/ (edited /\ TrackedDirty(s)) \/ (top.added /\ (s.added \/ s.untracked))
             THEN Err(s, "")
             ELSE IF edited /\ TreeOf(top.base) # TreeOf(s.head)
             THEN \* both sides changed f: the merge conflicts and the entry is kept
                  Err([s EXCEPT !.unmerged = TRUE, !.wrk = Content(TreeOf(s.head), TRUE),
                                !.added = s.added \/ top.added], "CONFLICT")
             ELSE Ok([s EXCEPT !.stash = Tail(s.stash),
                               !.wrk = IF edited THEN Content(TreeOf(s.head), TRUE) ELSE s.wrk,
                               !.added = s.added \/ top.added], "")

\* argv of git checkout: [b |-> branch, reset |-> -B given, start |-> Option of a revision,
\*                        notrack |-> --no-track given, force |-> -f given]
checkout(s, args) ==
    LET t == IF IsSome(args.start) THEN Resolve(s, Unwrap(args.start))
             ELSE IF args.reset THEN s.head
             ELSE IF args.b \in DOMAIN s.heads THEN s.heads[args.b] ELSE NoCommit
        moved == [s EXCEPT !.head = t, !.cur = Some(args.b),
                           !.heads = IF args.reset THEN (args.b :> t) @@ s.heads ELSE s.heads]
    IN  IF ~is_repository(s) \/ t = NoCommit THEN Err(s, "")
        ELSE IF args.force
        THEN Ok([moved EXCEPT !.idx = Pristine(t), !.wrk = Pristine(t), !.unmerged = FALSE,
                              !.added = FALSE, !.untracked = s.untracked \/ s.added], "")
        ELSE IF s.unmerged \/ (TrackedDirty(s) /\ TreeOf(t) # TreeOf(s.head)) THEN Err(s, "")
        ELSE IF TrackedDirty(s) THEN Ok(moved, "")
        ELSE Ok([moved EXCEPT !.idx = Pristine(t), !.wrk = Pristine(t)], "")

---------------------------------------------------------------------------
\* Manifest entries (cli/src/config/repo.rs).

Entry(local, remote, branch, tag, commit) ==
    [local |-> local, remote |-> remote, branch |-> branch, tag |-> tag, commit |-> commit]

RemoteRef(kind, val) == [kind |-> kind, val |-> val]

\* TomlRepo::get_remote_name
get_remote_name(e, s) ==
    IF e.remote = None THEN Err(s, "remote url is null.")
    ELSE find_remote_name_by_url(s, Unwrap(e.remote))

\* get_remote_ref with the tag consulted before the commit
get_remote_ref_TagFirst(e, s) ==
    LET rn == get_remote_name(e, s) IN
    IF ~rn.ok THEN [ok |-> FALSE, out |-> RemoteRef("Err", rn.out)]
    ELSE IF IsSome(e.tag) THEN [ok |-> TRUE, out |-> RemoteRef("Tag", Unwrap(e.tag))]
    ELSE IF IsSome(e.commit) THEN [ok |-> TRUE, out |-> RemoteRef("Commit", Unwrap(e.commit))]
    ELSE IF IsSome(e.branch)
         THEN [ok |-> TRUE, out |-> RemoteRef("Branch", <<rn.out, Unwrap(e.branch)>>)]
    ELSE [ok |-> FALSE, out |-> RemoteRef("Err", "remote ref is invalid!")]

\* TomlRepo::get_remote_ref: [ok, out]; out is the RemoteRef or the error
get_remote_ref(e, s) ==
    LET rn == get_remote_name(e, s) IN
    IF ~rn.ok THEN [ok |-> FALSE, out |-> RemoteRef("Err", rn.out)]
    ELSE IF IsSome(e.commit) THEN [ok |-> TRUE, out |-> RemoteRef("Commit", Unwrap(e.commit))]
    ELSE IF IsSome(e.tag) THEN [ok |-> TRUE, out |-> RemoteRef("Tag", Unwrap(e.tag))]
    ELSE IF IsSome(e.branch)
         THEN [ok |-> TRUE, out |-> RemoteRef("Branch", <<rn.out, Unwrap(e.branch)>>)]
    ELSE [ok |-> FALSE, out |-> RemoteRef("Err", "remote ref is invalid!")]

\* default_branch replacing a declared branch
WithDefaultBranch_Always(e, default_branch) ==
    IF IsSome(default_branch) THEN [e EXCEPT !.branch = default_branch] ELSE e

\* the private copy of an entry with `branch` filled from default_branch
WithDefaultBranch(e, default_branch) ==
    IF e.branch = None THEN [e EXCEPT !.branch = default_branch] ELSE e

\* does &commit[..7] panic
SlicePanics(ref) == ref.kind = "Commit" /\ Len(ref.val) < ShortShaLen

\* the local branch the target is checked out on
DisplayBranch(e, ref) ==
    CASE ref.kind = "Commit" -> <<"commits">> \o SubSeq(ref.val, 1, ShortShaLen)
      [] ref.kind = "Tag" -> <<"tags", ref.val>>
      [] ref.kind = "Branch" ->
            IF IsSome(e.branch) THEN <<Unwrap(e.branch)>> ELSE <<"invalid-branch">>

\* an existing branch checked out with -f and no -B
CheckoutArgs_NoReset(branch, ref, branch_exist, force) ==
    IF branch_exist
    THEN [b |-> branch, reset |-> FALSE, start |-> None, notrack |-> FALSE, force |-> force]
    ELSE [b |-> branch, reset |-> TRUE, start |-> Some(ref), notrack |-> TRUE, force |-> force]

\* the argv chosen from (branch_exist, force)
CheckoutArgs(branch, ref, branch_exist, force) ==
    CASE ~branch_exist /\ ~force ->
            [b |-> branch, reset |-> TRUE, start |-> Some(ref), notrack |-> TRUE, force |-> FALSE]
      [] ~branch_exist /\ force ->
            [b |-> branch, reset |-> TRUE, start |-> Some(ref), notrack |-> TRUE, force |-> TRUE]
      [] branch_exist /\ ~force ->
            [b |-> branch, reset |-> FALSE, start |-> None, notrack |-> FALSE, force |-> FALSE]
      [] branch_exist /\ force ->
            [b |-> branch, reset |-> TRUE, start |-> None, notrack |-> FALSE, force |-> TRUE]

\* exec_checkout_with_progress without the test of the current branch
exec_checkout_with_progress_NoShortCircuit(s, e, force) ==
    LET r == get_remote_ref(e, s) IN
    IF ~r.ok THEN [ok |-> FALSE, s |-> s, panic |-> FALSE, argv |-> None]
    ELSE IF SlicePanics(r.out) THEN [ok |-> FALSE, s |-> s, panic |-> TRUE, argv |-> None]
    ELSE LET branch == DisplayBranch(e, r.out)
             ex == local_branch_already_exist(s, branch)
         IN  IF ~ex.ok THEN [ok |-> FALSE, s |-> s, panic |-> FALSE, argv |-> None]
             ELSE LET args == CheckoutArgs(branch, r.out, ex.out, force)
                      c == checkout(s, args)
                  IN  [ok |-> c.ok, s |-> c.s, panic |-> FALSE, argv |-> Some(args)]

\* exec_checkout_with_progress: [ok, s, panic, argv]; argv is None when git checkout did not run
exec_checkout_with_progress(s, e, force) ==
    LET r == get_remote_ref(e, s) IN
    IF ~r.ok THEN [ok |-> FALSE, s |-> s, panic |-> FALSE, argv |-> None]
    ELSE IF SlicePanics(r.out) THEN [ok |-> FALSE, s |-> s, panic |-> TRUE, argv |-> None]
    ELSE LET branch == DisplayBranch(e, r.out)
             cb == get_current_branch(s)
             ex == local_branch_already_exist(s, branch)
         IN  IF cb.ok /\ cb.out = branch
             THEN [ok |-> TRUE, s |-> s, panic |-> FALSE, argv |-> None]
             ELSE IF ~ex.ok THEN [ok |-> FALSE, s |-> s, panic |-> FALSE, argv |-> None]
             ELSE LET args == CheckoutArgs(branch, r.out, ex.out, force)
                      c == checkout(s, args)
                  IN  [ok |-> c.ok, s |-> c.s, panic |-> FALSE, argv |-> Some(args)]

\* the git argument of a ResetType
ResetArg(type) ==
    CASE type = "Soft" -> "--soft" [] type = "Mixed" -> "--mixed" [] type = "Hard" -> "--hard"

\* exec_reset_with_progress resetting to the declared branch when there is one
exec_reset_with_progress_ToBranch(s, e, type) ==
    LET r == get_remote_ref(IF IsSome(e.branch) THEN [e EXCEPT !.commit = None, !.tag = None]
                            ELSE e, s)
    IN  IF ~r.ok THEN Err(s, "") ELSE reset(s, ResetArg(type), r.out)

\* exec_reset_with_progress
exec_reset_with_progress(s, e, type) ==
    LET r == get_remote_ref(e, s) IN
    IF ~r.ok THEN Err(s, "") ELSE reset(s, ResetArg(type), r.out)

\* cmp_local_remote with use_tracking_remote false, as far as the runner reads it:
\* "panic", "err", or the summary kind
cmp_local_remote(s, e0, default_branch) ==
    IF e0.local = None THEN "panic"
    ELSE LET e == WithDefaultBranch(e0, default_branch)
             r == get_remote_ref(e, s)
         IN  IF ~r.ok THEN "err"
             ELSE IF SlicePanics(r.out) THEN "panic"
             ELSE IF ~get_current_branch(s).ok THEN "err"
             ELSE IF Resolve(s, r.out) = NoCommit THEN "unknown revision"
             ELSE IF Resolve(s, r.out) = s.head /\ ~Dirty(s) THEN "already update to date."
             ELSE "diff"

---------------------------------------------------------------------------
\* Code of the repository outside src/, modelled from its specification.

\* utils::path::display_path: the path without "." components
RECURSIVE display_path(_)
display_path(p) ==
    IF p = <<>> THEN <<>>
    ELSE IF Head(p) = "." THEN display_path(Tail(p))
    ELSE <<Head(p)>> \o display_path(Tail(p))

\* fetch::exec_fetch_with_progress: git fetch of the entry's remote
exec_fetch_with_progress(s, e) ==
    IF is_repository(s) /\ IsSome(s.rurl) THEN Ok([s EXCEPT !.fetched = TRUE], "")
    ELSE Err(s, "")

\* track::set_tracking_remote_branch: git branch --set-upstream-to, for a branch target
set_tracking_remote_branch(s, e0, default_branch) ==
    LET e == WithDefaultBranch(e0, default_branch)
        r == get_remote_ref(e, s)
    IN  IF r.ok /\ r.out.kind = "Branch" /\ Resolve(s, r.out) # NoCommit /\ get_current_branch(s).ok
        THEN [s EXCEPT !.upstream = Some(r.out.val)]
        ELSE s

\* utils::logger: the fragments of the comparator's summary (sequences of words); the
\* commit fragment is empty when nothing is ahead and nothing behind
fmt_commit_desc(ahead, behind) ==
    (IF ahead = <<"0">> THEN <<>> ELSE <<"ahead">> \o ahead)
        \o (IF behind = <<"0">> THEN <<>> ELSE <<"behind">> \o behind)
fmt_unknown_revision_desc == <<"unknown revision">>
fmt_changes_desc(n) == <<"changes">> \o n

\* the paths of the workspace that can hold a repository
Paths == {<<"a">>, <<"a", "b">>, <<"c">>}
Inside(q, p) == Len(p) < Len(q) /\ IsPrefix(p, q)

\* the `local` paths a manifest lists
Locals(cfg) ==
    IF cfg.repos = None THEN {}
    ELSE LET rs == Unwrap(cfg.repos)
         IN  {display_path(Unwrap(rs[k].local)) : k \in {j \in 1..Len(rs) : IsSome(rs[j].local)}}

\* clean::exec_clean: removes the working trees the manifest does not list
exec_clean(f, cfg) ==
    LET gone == {p \in Paths : f[p].git /\ p \notin Locals(cfg)
                               /\ \A q \in Locals(cfg) : ~Inside(q, p)}
    IN  [p \in Paths |-> IF p \in gone \/ \E g \in gone : Inside(p, g) THEN NoDir ELSE f[p]]

---------------------------------------------------------------------------
\* The comparator (cli/src/config/repo.rs, cmp_local_remote) call by call, and the
\* driver calls it makes (core/src/core/git.rs).

\* the history of the remote: c2 and c3 are children of the root commit c1
Ancestors(c) ==
    CASE c = "c1" -> {"c1"} [] c = "c2" -> {"c1", "c2"} [] c = "c3" -> {"c1", "c3"}
      [] OTHER -> {}

\* a small number as git prints it
Decimal(n) == <<(<<"0", "1", "2", "3", "4", "5", "6", "7", "8", "9">>)[n + 1]>>

\* git rev-parse --abbrev-ref @{u} exits non-zero without an upstream or a current branch
get_tracking_branch(s) ==
    IF is_repository(s) /\ IsSome(s.cur) /\ IsSome(s.upstream)
    THEN Ok(s, Unwrap(s.upstream)) ELSE Err(s, <<>>)

\* get_untrack_files listing by staging what it finds
get_untrack_files_Staging(s) ==
    IF is_repository(s)
    THEN Ok(add_untracked_files(s).s, IF s.untracked THEN {"u"} ELSE {}) ELSE Err(s, {})

\* the file names the three listings print: f is the tracked file, u the other one
get_untrack_files(s) ==
    IF is_repository(s) THEN Ok(s, IF s.untracked THEN {"u"} ELSE {}) ELSE Err(s, {})

get_changed_files(s) ==
    IF is_repository(s) THEN Ok(s, IF s.wrk # s.idx THEN {"f"} ELSE {}) ELSE Err(s, {})

get_staged_files(s) ==
    IF is_repository(s)
    THEN Ok(s, (IF s.idx # Pristine(s.head) THEN {"f"} ELSE {})
                  \cup (IF s.added THEN {"u"} ELSE {}))
    ELSE Err(s, {})

\* git rev-list --count --left-right <branch>...<ref>: the two counts, tab-separated
get_rev_list_count(s, branch, ref) ==
    LET t == Resolve(s, ref) IN
    IF ~is_repository(s) \/ branch \notin DOMAIN s.heads \/ t = NoCommit THEN Err(s, <<>>)
    ELSE LET a == s.heads[branch] IN
         Ok(s, Decimal(Cardinality(Ancestors(a) \ Ancestors(t))) \o <<"\t">>
                  \o Decimal(Cardinality(Ancestors(t) \ Ancestors(a))))

\* git show-branch --sha1-name <branch>; a failure gives the empty string
get_branch_log(s, branch) ==
    IF is_repository(s) /\ branch \in DOMAIN s.heads THEN Ok(s, s.heads[branch]) ELSE Ok(s, "")

\* Regex::new(r"(\d+)\s*(\d+)").captures(output), output a sequence of characters
IsDigit(ch) == ch \in {"0", "1", "2", "3", "4", "5", "6", "7", "8", "9"}
IsSpace(ch) == ch \in {" ", "\t", "\n"}

\* the last index of the longest run of digits (of spaces) that starts at index i
RECURSIVE DigitRun(_, _)
DigitRun(out, i) ==
    IF i > Len(out) \/ ~IsDigit(out[i]) THEN i - 1 ELSE DigitRun(out, i + 1)
RECURSIVE SpaceRun(_, _)
SpaceRun(out, i) ==
    IF i > Len(out) \/ ~IsSpace(out[i]) THEN i - 1 ELSE SpaceRun(out, i + 1)

\* the match that starts at index i: both groups greedy; when no digit follows the
\* spaces the first group gives back its last digit to the second
MatchAt(out, i) ==
    LET j == DigitRun(out, i)
        k == SpaceRun(out, j + 1)
        m == DigitRun(out, k + 1)
    IN  IF j < i THEN None
        ELSE IF m > k THEN Some(<<SubSeq(out, i, j), SubSeq(out, k + 1, m)>>)
        ELSE IF j > i THEN Some(<<SubSeq(out, i, j - 1), SubSeq(out, j, j)>>)
        ELSE None

\* the leftmost match
Captures(out) ==
    LET starts == {i \in 1..Len(out) : IsSome(MatchAt(out, i))}
    IN  IF starts = {} THEN None
        ELSE MatchAt(out, CHOOSE i \in starts : \A j \in starts : i <= j)

\* the git invocations of is_repository and of get_current_branch
IsRepoCalls(s) == IF s.dir /\ s.git THEN <<"rev-parse">> ELSE <<>>
CurrentBranchCalls(s) ==
    IsRepoCalls(s)
        \o (IF ~is_repository(s) THEN <<>>
            ELSE <<"branch --show-current">>
                    \o (IF IsSome(s.cur) THEN <<"branch -l">> ELSE <<>>))

\* what a call of cmp_local_remote gives: kind is "panic", "err" or the summary's kind,
\* s the repository it leaves, calls the git invocations in order, rl the reply to rev-list
CmpResult(kind, s, calls, commit_desc, changes_desc, rl) ==
    [kind |-> kind, s |-> s, calls |-> calls, commit_desc |-> commit_desc,
     changes_desc |-> changes_desc, rl |-> rl]
NoReply == [ok |-> FALSE, out |-> <<>>]

\* is remote_desc the empty string
RefEmpty(ref) == ref.kind = "Tag" /\ ref.val = ""

\* cmp_local_remote; rev_list is None with git itself, Some(output) with a driver that
\* answers rev-list with that output and exit status 0
Comparator(s0, e0, default_branch, use_tracking_remote, rev_list) ==
    IF e0.local = None THEN CmpResult("panic", s0, <<>>, <<>>, <<>>, NoReply)
    ELSE
    LET e == WithDefaultBranch(e0, default_branch)
        tb == get_tracking_branch(s0)
        rr == get_remote_ref(e, s0)
        ok1 == IF use_tracking_remote THEN tb.ok ELSE rr.ok
        ref == IF use_tracking_remote THEN RemoteRef("Branch", tb.out) ELSE rr.out
        s1 == IF use_tracking_remote THEN tb.s ELSE s0
        c1 == IF ~use_tracking_remote /\ e.remote = None THEN <<>>
              ELSE IsRepoCalls(s0)
                      \o (IF ~is_repository(s0) THEN <<>>
                          ELSE IF use_tracking_remote THEN <<"rev-parse">>
                          ELSE <<"remote -v">>)
    IN  IF ~ok1 THEN CmpResult("err", s1, c1, <<>>, <<>>, NoReply)
        ELSE IF ~use_tracking_remote /\ SlicePanics(ref)
        THEN CmpResult("panic", s1, c1, <<>>, <<>>, NoReply)
        ELSE IF RefEmpty(ref) THEN CmpResult("not tracking", s1, c1, <<>>, <<>>, NoReply)
        ELSE
        LET u == get_untrack_files(s1)
            ch == get_changed_files(u.s)
            st == get_staged_files(ch.s)
            changed_files == (IF u.ok THEN u.out ELSE {}) \cup (IF ch.ok THEN ch.out ELSE {})
                                \cup (IF st.ok THEN st.out ELSE {})
            changes_desc == IF changed_files = {} THEN <<>>
                            ELSE fmt_changes_desc(Decimal(Cardinality(changed_files)))
            cb == get_current_branch(st.s)
            c2 == c1 \o <<"ls-files", "diff", "diff --cached">> \o CurrentBranchCalls(st.s)
        IN  IF ~cb.ok THEN CmpResult("err", cb.s, c2, <<>>, changes_desc, NoReply)
            ELSE IF cb.out = <<>>
            THEN CmpResult("init commit", cb.s, c2, <<>>, changes_desc, NoReply)
            ELSE
            LET git == get_rev_list_count(cb.s, cb.out, ref)
                rl == IF IsSome(rev_list) THEN Ok(git.s, Unwrap(rev_list)) ELSE git
                caps == Captures(rl.out)
                commit_desc ==
                    IF ~rl.ok THEN fmt_unknown_revision_desc
                    ELSE IF IsSome(caps)
                    THEN fmt_commit_desc(Unwrap(caps)[1], Unwrap(caps)[2])
                    ELSE <<>>
                c3 == c2 \o <<"rev-list">>
                reply == [ok |-> rl.ok, out |-> rl.out]
            IN  IF commit_desc = <<>> /\ changes_desc = <<>>
                THEN CmpResult("already update to date.", get_branch_log(rl.s, cb.out).s,
                               c3 \o <<"show-branch">>, commit_desc, changes_desc, reply)
                ELSE CmpResult("diff", rl.s, c3, commit_desc, changes_desc, reply)

---------------------------------------------------------------------------
\* TomlConfig::serialize (src/commands/mod.rs).  The text is a sequence of lines, a line
\* a sequence of words, the empty sequence a blank line.

Preamble ==
    <<<<"# This file is automatically @generated by mgit.">>, <<"# Editing it as you wish.">>>>

\* the words of a value: `local` and `commit` are kept as sequences, the others as one word
Words(key, x) == IF key \in {"local", "commit"} THEN x ELSE <<x>>

\* `key = "value"` when the field is present, no line when it is absent
Field(o, key) ==
    IF IsSome(o) THEN <<<<key, "=", "\"">> \o Words(key, Unwrap(o)) \o <<"\"">>>> ELSE <<>>

\* one [[repos]] block listing the tag before the branch
RepoBlock_TagFirst(e) ==
    <<<<"[[repos]]">>>> \o Field(e.local, "local") \o Field(e.remote, "remote")
        \o Field(e.tag, "tag") \o Field(e.branch, "branch") \o Field(e.commit, "commit")
        \o <<<<>>>>

\* one [[repos]] block
RepoBlock(e) ==
    <<<<"[[repos]]">>>> \o Field(e.local, "local") \o Field(e.remote, "remote")
        \o Field(e.branch, "branch") \o Field(e.tag, "tag") \o Field(e.commit, "commit")
        \o <<<<>>>>

RECURSIVE RepoBlocks(_)
RepoBlocks(list) ==
    IF list = <<>> THEN <<>> ELSE RepoBlock(Head(list)) \o RepoBlocks(Tail(list))

serialize(cfg) ==
    Preamble \o Field(cfg.version, "version") \o Field(cfg.default_branch, "default-branch")
        \o Field(cfg.default_remote, "default-remote") \o <<<<>>>>
        \o (IF IsSome(cfg.repos) THEN RepoBlocks(Unwrap(cfg.repos)) ELSE <<>>)

---------------------------------------------------------------------------
\* exclude_ignore (cli/src/config/repo.rs): for each ignore path in turn, remove the
\* first entry whose displayed local path equals it.

RemoveAt(seq, k) == SubSeq(seq, 1, k - 1) \o SubSeq(seq, k + 1, Len(seq))

Position(seq, ignore_path) ==
    LET hits == {k \in 1..Len(seq) :
                    IsSome(seq[k].local) /\ display_path(Unwrap(seq[k].local)) = ignore_path}
    IN  IF hits = {} THEN 0 ELSE CHOOSE k \in hits : \A j \in hits : k <= j

RECURSIVE exclude_ignore(_, _)
exclude_ignore(toml_repos, ignore) ==
    IF ignore = <<>> THEN toml_repos
    ELSE LET k == Position(toml_repos, Head(ignore))
         IN  exclude_ignore(IF k = 0 THEN toml_repos ELSE RemoveAt(toml_repos, k), Tail(ignore))

---------------------------------------------------------------------------
\* The command: exec and inner_exec (cli/src/commands/sync.rs).

\* may the environment make this call fail
FaultChoices == IF faults < MaxFaults THEN {FALSE, TRUE} ELSE {FALSE}
Charge(f) == faults' = IF f THEN faults + 1 ELSE faults

N == Len(repos)
Ids == 1..N
PathOf(i) == Unwrap(repos[i].local)

\* program positions of a unit of work inside exec_sync_with_progress
SmPcs == {"mkdir", "is_repo", "init", "add_remote", "fetch", "resolve", "valid",
          "stash", "checkout", "reset", "pop", "clean"}
Running(i) == w[i].pc \in SmPcs
\* a pool thread is executing the closure for entry i
Active(i) == w[i].pc \in SmPcs \cup {"finish"}
Panicked == \E i \in Ids : w[i].pc = "panicked"

NewWorker(e) ==
    [pc |-> "queued", idx |-> 0, mode |-> opts.stash_mode, ent |-> e, msg |-> "",
     res |-> "", trace |-> <<>>, oks |-> <<>>, cmp |-> "", argv |-> None, ref |-> RemoteRef("Err", "")]

\* exec, lines 61-77: the manifest must be a file that loads
ExecStart ==
    /\ phase = "exec"
    /\ phase' = IF cfgFile = "ok" THEN "inner_exec" ELSE "returned"
    /\ UNCHANGED <<gui, probe, cfgFile, config, opts, rootDir, fs, repos, w, counter, totalBar, succ,
                   errs, faults, runNo, snap, cleaned, intruded>>

\* the Cleaner run whatever the stash mode of the command
Cleaner_AnyMode ==
    /\ phase = "inner_exec"
    /\ IF rootDir
       THEN fs' = exec_clean(fs, config) /\ cleaned' = cleaned + 1
       ELSE UNCHANGED <<fs, cleaned>>
    /\ phase' = "load_repos"
    /\ UNCHANGED <<gui, probe, cfgFile, config, opts, rootDir, repos, w, counter, totalBar, succ,
                   errs, faults, runNo, snap, intruded>>

\* inner_exec, lines 103-107: the Cleaner
Cleaner ==
    /\ phase = "inner_exec"
    /\ IF opts.stash_mode = "Hard" /\ rootDir
       THEN fs' = exec_clean(fs, config) /\ cleaned' = cleaned + 1
       ELSE UNCHANGED <<fs, cleaned>>
    /\ phase' = "load_repos"
    /\ UNCHANGED <<gui, probe, cfgFile, config, opts, rootDir, repos, w, counter, totalBar, succ,
                   errs, faults, runNo, snap, intruded>>

\* inner_exec, lines 109-151: the entries, the counter and the thread pool
Prepare ==
    /\ phase = "load_repos"
    /\ IF config.repos = None
       THEN /\ phase' = "returned"
            /\ UNCHANGED <<repos, w, counter, totalBar>>
       ELSE LET rs == exclude_ignore(Unwrap(config.repos), opts.ignore) IN
            /\ repos' = rs
            /\ w' = [i \in 1..Len(rs) |-> NewWorker(rs[i])]
            /\ counter' = CounterStart
            /\ totalBar' = 0
            /\ phase' = "parallel"
    /\ UNCHANGED <<gui, probe, cfgFile, config, opts, rootDir, fs, succ, errs, faults, runNo, snap,
                   cleaned, intruded>>

\* what a step leaves: the worker's record and its repository
Leave(i, rec, s) ==
    /\ w' = [w EXCEPT ![i] = rec]
    /\ fs' = [fs EXCEPT ![PathOf(i)] = s]

Log(rec, op) == [rec EXCEPT !.trace = Append(@, op)]
\* the Result the call logged last returned: Ok (TRUE) or Err (FALSE)
Ret(rec, ok) == [rec EXCEPT !.oks = Append(@, ok)]
Fail(rec) == [rec EXCEPT !.pc = "finish", !.res = "err"]
Panic(rec) == [rec EXCEPT !.pc = "panicked"]

Frame == UNCHANGED <<gui, probe, cfgFile, config, opts, rootDir, phase, repos, counter, totalBar, succ,
                     errs, runNo, snap, cleaned>>

\* a pool that starts a thread per entry
PoolHasIdleThread_Unbounded == TRUE

\* may a pool thread take another entry: the pool has thread_count threads
PoolHasIdleThread == Cardinality({j \in Ids : Active(j)}) < opts.thread_count

\* the counter read without being advanced
inc_Load(c) == c

\* RelaxedCounter::inc, line 159: one atomic fetch_add(1); the value before it is returned
inc(c) == c + 1

\* the closure, lines 158-181: claim a display index, take the "before" summary
Claim(i) ==
    /\ phase = "parallel" /\ w[i].pc = "queued"
    /\ PoolHasIdleThread
    /\ counter' = inc(counter)
    /\ LET c == IF opts.silent THEN ""
                ELSE cmp_local_remote(IF IsSome(repos[i].local) THEN fs[PathOf(i)] ELSE NoDir,
                                      repos[i], config.default_branch)
           rec == [w[i] EXCEPT !.idx = counter, !.cmp = c]
       IN  w' = [w EXCEPT ![i] = IF c = "panic" THEN Panic(rec) ELSE [rec EXCEPT !.pc = "mkdir"]]
    /\ UNCHANGED <<gui, probe, cfgFile, config, opts, rootDir, fs, phase, repos, totalBar, succ, errs,
                   faults, runNo, snap, cleaned, intruded>>

\* lines 305-310: create_dir_all(full_path)
Mkdir(i) ==
    /\ phase = "parallel" /\ w[i].pc = "mkdir"
    /\ IF repos[i].local = None
       THEN w' = [w EXCEPT ![i] = Panic(w[i])] /\ UNCHANGED <<fs, faults, intruded>>
       ELSE \E f \in FaultChoices :
            /\ Charge(f)
            /\ IF f
               THEN w' = [w EXCEPT ![i] = Fail(Ret(Log(w[i], "create_dir_all"), FALSE))]
                    /\ UNCHANGED <<fs, intruded>>
               ELSE /\ w' = [w EXCEPT ![i] = [Ret(Log(w[i], "create_dir_all"), TRUE)
                                                EXCEPT !.pc = "is_repo"]]
                    /\ fs' = [p \in Paths |->
                                IF (p = PathOf(i) \/ Inside(PathOf(i), p)) /\ ~fs[p].dir
                                THEN EmptyDir ELSE fs[p]]
                    /\ intruded' = intruded \cup
                          {<<i, j>> : j \in {k \in Ids \ {i} :
                               /\ Running(k) /\ IsSome(repos[k].local)
                               /\ Inside(PathOf(i), PathOf(k)) /\ ~fs[PathOf(i)].dir}}
    /\ Frame

\* the forced Hard mode written to the stash mode every state machine shares
IsRepo_Shared(i) ==
    /\ phase = "parallel" /\ w[i].pc = "is_repo"
    /\ LET is_repo_none == ~is_repository(fs[PathOf(i)])
           rec == Ret(Log(w[i], "is_repository"), ~is_repo_none)
       IN  w' = [j \in Ids |-> IF is_repo_none
                               THEN IF j = i THEN [rec EXCEPT !.mode = "Hard", !.pc = "init"]
                                    ELSE [w[j] EXCEPT !.mode = "Hard"]
                               ELSE IF j = i THEN [rec EXCEPT !.pc = "fetch"] ELSE w[j]]
    /\ UNCHANGED <<fs, faults, intruded>>
    /\ Frame

\* lines 312-319: is_repository; a directory that is no repository is synced --hard
IsRepo(i) ==
    /\ phase = "parallel" /\ w[i].pc = "is_repo"
    /\ LET is_repo_none == ~is_repository(fs[PathOf(i)])
           rec == Ret(Log(w[i], "is_repository"), ~is_repo_none)
       IN  w' = [w EXCEPT ![i] = IF is_repo_none
                                 THEN [rec EXCEPT !.mode = "Hard", !.pc = "init"]
                                 ELSE [rec EXCEPT !.pc = "fetch"]]
    /\ UNCHANGED <<fs, faults, intruded>>
    /\ Frame

\* exec_init_with_progress
ExecInit(i) ==
    /\ phase = "parallel" /\ w[i].pc = "init"
    /\ \E f \in FaultChoices :
        LET r == IF f THEN Err(fs[PathOf(i)], "") ELSE init(fs[PathOf(i)])
            rec == Ret(Log(w[i], "init"), r.ok)
        IN  /\ Charge(f)
            /\ Leave(i, IF r.ok THEN [rec EXCEPT !.pc = "add_remote"] ELSE Fail(rec), r.s)
    /\ UNCHANGED intruded
    /\ Frame

\* exec_add_remote_with_progress
AddRemote(i) ==
    /\ phase = "parallel" /\ w[i].pc = "add_remote"
    /\ IF repos[i].remote = None
       THEN w' = [w EXCEPT ![i] = Panic(w[i])] /\ UNCHANGED <<fs, faults>>
       ELSE \E f \in FaultChoices :
            LET r == IF f THEN Err(fs[PathOf(i)], "")
                     ELSE add_remote_url(fs[PathOf(i)], Unwrap(repos[i].remote))
                rec == Ret(Log(w[i], "add_remote"), r.ok)
            IN  /\ Charge(f)
                /\ Leave(i, IF r.ok THEN [rec EXCEPT !.pc = "fetch"] ELSE Fail(rec), r.s)
    /\ UNCHANGED intruded
    /\ Frame

\* lines 326-332: the default branch, then fetch
Fetch(i) ==
    /\ phase = "parallel" /\ w[i].pc = "fetch"
    /\ \E f \in FaultChoices :
        LET e == WithDefaultBranch(w[i].ent, config.default_branch)
            r == IF f THEN Err(fs[PathOf(i)], "") ELSE exec_fetch_with_progress(fs[PathOf(i)], e)
            rec == [Ret(Log(w[i], "fetch"), r.ok) EXCEPT !.ent = e]
        IN  /\ Charge(f)
            /\ Leave(i, IF r.ok THEN [rec EXCEPT !.pc = "resolve"] ELSE Fail(rec), r.s)
    /\ UNCHANGED intruded
    /\ Frame

\* lines 334-340: get_remote_ref
ResolveRef(i) ==
    /\ phase = "parallel" /\ w[i].pc = "resolve"
    /\ \E f \in FaultChoices :
        LET r == get_remote_ref(w[i].ent, fs[PathOf(i)])
            ref == IF f THEN RemoteRef("Err", "git failed") ELSE r.out
            rec == [Ret(Log(w[i], "get_remote_ref"), r.ok /\ ~f) EXCEPT !.ref = ref]
        IN  /\ Charge(f)
            /\ w' = [w EXCEPT ![i] = IF r.ok /\ ~f THEN [rec EXCEPT !.pc = "valid"]
                                      ELSE Fail(rec)]
    /\ UNCHANGED <<fs, intruded>>
    /\ Frame

\* Normal mode stashing also when no_checkout is set
FirstStep_AlwaysStash(mode, no_checkout) ==
    CASE mode \in {"Normal", "Stash"} -> "stash"
      [] mode = "Hard" -> "clean"

\* the first step of each stash mode, lines 345-451
FirstStep(mode, no_checkout) ==
    CASE mode = "Normal" -> IF no_checkout THEN "reset" ELSE "stash"
      [] mode = "Stash" -> "stash"
      [] mode = "Hard" -> "clean"

\* the validation made but its result dropped
Validate_Ignored(i) ==
    /\ phase = "parallel" /\ w[i].pc = "valid"
    /\ \E f \in FaultChoices :
        LET ok == ~f /\ is_remote_ref_valid(fs[PathOf(i)], w[i].ref)
            rec == Ret(Log(w[i], "is_remote_ref_valid"), ok)
        IN  /\ Charge(f)
            /\ w' = [w EXCEPT ![i] = [rec EXCEPT !.pc = FirstStep(w[i].mode, opts.no_checkout)]]
    /\ UNCHANGED <<fs, intruded>>
    /\ Frame

\* lines 342-343: is_remote_ref_valid
Validate(i) ==
    /\ phase = "parallel" /\ w[i].pc = "valid"
    /\ \E f \in FaultChoices :
        LET ok == ~f /\ is_remote_ref_valid(fs[PathOf(i)], w[i].ref)
            rec == Ret(Log(w[i], "is_remote_ref_valid"), ok)
        IN  /\ Charge(f)
            /\ w' = [w EXCEPT ![i] =
                        IF ok THEN [rec EXCEPT !.pc = FirstStep(w[i].mode, opts.no_checkout)]
                        ELSE Fail(rec)]
    /\ UNCHANGED <<fs, intruded>>
    /\ Frame

\* exec_stash_with_progress; "stash failed." replaces the message of a failed stash
Stash(i) ==
    /\ phase = "parallel" /\ w[i].pc = "stash"
    /\ \E f \in FaultChoices :
        LET r == IF f THEN Err(fs[PathOf(i)], "") ELSE stash(fs[PathOf(i)])
            rec == [Ret(Log(w[i], "stash"), r.ok) EXCEPT !.msg = IF r.ok THEN r.out ELSE "stash failed."]
        IN  /\ Charge(f)
            /\ Leave(i, [rec EXCEPT !.pc = IF w[i].mode = "Stash" /\ opts.no_checkout
                                           THEN "reset" ELSE "checkout"], r.s)
    /\ UNCHANGED intruded
    /\ Frame

\* the stash popped whatever the stash step said
HasWIP_Always(rec) == TRUE

\* does the stash message say an entry was saved
HasWIP(rec) == rec.msg = "WIP"

\* a failed checkout or reset tried again
AfterError_Retry(rec) == rec

\* a failed checkout or reset returned at once, the stash left where it is
AfterError_NoPop(rec) == Fail(rec)

\* where a failed checkout or reset leaves the state machine, by mode
AfterError(rec) ==
    IF rec.mode \in {"Normal", "Stash"} /\ HasWIP(rec)
    THEN [rec EXCEPT !.pc = "pop", !.res = "err"]
    ELSE Fail(rec)

\* exec_checkout_with_progress: forced except in Normal mode
Checkout(i) ==
    /\ phase = "parallel" /\ w[i].pc = "checkout"
    /\ \E f \in FaultChoices :
        LET c == exec_checkout_with_progress(fs[PathOf(i)], w[i].ent, w[i].mode # "Normal")
            r == IF f /\ ~c.panic THEN [c EXCEPT !.ok = FALSE, !.s = fs[PathOf(i)]] ELSE c
            rec == [Ret(Log(w[i], "checkout"), r.ok) EXCEPT !.argv = c.argv]
        IN  /\ Charge(f)
            /\ Leave(i, IF r.panic THEN Panic(w[i])
                        ELSE IF r.ok THEN [rec EXCEPT !.pc = "reset"]
                        ELSE AfterError(rec), r.s)
    /\ UNCHANGED intruded
    /\ Frame

\* reset --hard in every mode
ResetTypeOf_HardOnly(mode, no_checkout) == "Hard"

\* the reset type of each stash mode
ResetTypeOf(mode, no_checkout) ==
    CASE mode = "Normal" -> IF no_checkout THEN "Soft" ELSE "Hard"
      [] mode = "Stash" -> IF no_checkout THEN "Mixed" ELSE "Hard"
      [] mode = "Hard" -> "Hard"

\* Stash mode popping after a successful reset, as Normal mode does
AfterReset_PopAll(rec) ==
    IF rec.mode \in {"Normal", "Stash"} /\ HasWIP(rec)
    THEN [rec EXCEPT !.pc = "pop", !.res = "ok"]
    ELSE [rec EXCEPT !.pc = "finish", !.res = "ok"]

\* where a successful reset leaves the state machine: Normal mode pops what it stashed
AfterReset(rec) ==
    IF rec.mode = "Normal" /\ HasWIP(rec)
    THEN [rec EXCEPT !.pc = "pop", !.res = "ok"]
    ELSE [rec EXCEPT !.pc = "finish", !.res = "ok"]

\* exec_reset_with_progress
Reset(i) ==
    /\ phase = "parallel" /\ w[i].pc = "reset"
    /\ \E f \in FaultChoices :
        LET type == ResetTypeOf(w[i].mode, opts.no_checkout)
            r == IF f THEN Err(fs[PathOf(i)], "")
                 ELSE exec_reset_with_progress(fs[PathOf(i)], w[i].ent, type)
            rec == Ret(Log(w[i], ResetArg(type)), r.ok)
        IN  /\ Charge(f)
            /\ Leave(i, IF r.ok THEN AfterReset(rec) ELSE AfterError(rec), r.s)
    /\ UNCHANGED intruded
    /\ Frame

\* a failed stash pop returned as the error of the state machine
Pop_Propagates(i) ==
    /\ phase = "parallel" /\ w[i].pc = "pop"
    /\ \E f \in FaultChoices :
        LET r == IF f THEN Err(fs[PathOf(i)], "") ELSE stash_pop(fs[PathOf(i)])
            rec == [Ret(Log(w[i], "stash_pop"), r.ok) EXCEPT !.pc = "finish"]
        IN  /\ Charge(f)
            /\ Leave(i, IF r.ok THEN rec ELSE [rec EXCEPT !.res = "err"], r.s)
    /\ UNCHANGED intruded
    /\ Frame

\* exec_stash_pop_with_progress: its result is dropped
Pop(i) ==
    /\ phase = "parallel" /\ w[i].pc = "pop"
    /\ \E f \in FaultChoices :
        LET r == IF f THEN Err(fs[PathOf(i)], "") ELSE stash_pop(fs[PathOf(i)])
        IN  /\ Charge(f)
            /\ Leave(i, [Ret(Log(w[i], "stash_pop"), r.ok) EXCEPT !.pc = "finish"], r.s)
    /\ UNCHANGED intruded
    /\ Frame

\* a failed clean -fd passed over
Clean_Ignored(i) ==
    /\ phase = "parallel" /\ w[i].pc = "clean"
    /\ \E f \in FaultChoices :
        LET r == IF f THEN Err(fs[PathOf(i)], "") ELSE clean(fs[PathOf(i)])
            rec == Ret(Log(w[i], "clean"), r.ok)
        IN  /\ Charge(f)
            /\ Leave(i, [rec EXCEPT !.pc = IF opts.no_checkout THEN "reset" ELSE "checkout"], r.s)
    /\ UNCHANGED intruded
    /\ Frame

\* exec_clean_with_progress: git clean -fd also removes the untracked directories
\* below the repository that are no repositories themselves
Clean(i) ==
    /\ phase = "parallel" /\ w[i].pc = "clean"
    /\ \E f \in FaultChoices :
        LET r == IF f THEN Err(fs[PathOf(i)], "") ELSE clean(fs[PathOf(i)])
            rec == Ret(Log(w[i], "clean"), r.ok)
            removed == IF r.ok THEN {q \in Paths : Inside(q, PathOf(i)) /\ fs[q].dir /\ ~fs[q].git}
                       ELSE {}
        IN  /\ Charge(f)
            /\ w' = [w EXCEPT ![i] = IF ~r.ok THEN Fail(rec)
                                    ELSE [rec EXCEPT !.pc = IF opts.no_checkout THEN "reset"
                                                            ELSE "checkout"]]
            /\ fs' = [p \in Paths |-> IF p = PathOf(i) THEN r.s
                                      ELSE IF p \in removed THEN NoDir ELSE fs[p]]
            /\ intruded' = intruded \cup
                  {<<i, j>> : j \in {k \in Ids \ {i} : Running(k) /\ IsSome(repos[k].local)
                                                       /\ PathOf(k) \in removed}}
    /\ Frame

\* the closure, lines 195-257: the "after" summary, tracking, the total bar
Finish(i) ==
    /\ phase = "parallel" /\ w[i].pc = "finish"
    /\ LET s == fs[PathOf(i)]
           c == IF opts.silent \/ w[i].res # "ok" THEN ""
                ELSE cmp_local_remote(s, repos[i], config.default_branch)
           tracked == w[i].res = "ok" /\ ~opts.no_track
           rec == IF tracked THEN Ret(Log(w[i], "track"), TRUE) ELSE w[i]
       IN  IF c = "panic"
           THEN w' = [w EXCEPT ![i] = Panic(w[i])] /\ UNCHANGED <<fs, totalBar>>
           ELSE /\ Leave(i, [rec EXCEPT !.pc = "done", !.cmp = c],
                         IF tracked THEN set_tracking_remote_branch(s, repos[i], config.default_branch)
                         ELSE s)
                /\ totalBar' = totalBar + 1
    /\ UNCHANGED <<gui, probe, cfgFile, config, opts, rootDir, phase, repos, counter, succ, errs, faults,
                   runNo, snap, cleaned, intruded>>

\* collecting into one Result: the first error discards the successes
Select_FailFast(k, r) ==
    IF r = "ok" /\ \E j \in Ids : w[j].res = "err" THEN <<>>
    ELSE LET idxs == {j \in k..N : w[j].res = r}
             F[n \in 0..N] == IF n = 0 THEN <<>>
                              ELSE F[n - 1] \o (IF n \in idxs THEN <<n>> ELSE <<>>)
         IN  F[N]

\* collecting without looking at the result
Select_NoFilter(k, r) ==
    LET F[n \in 0..N] == IF n = 0 THEN <<>> ELSE Append(F[n - 1], n) IN F[N]

\* the entries k..N (indices) whose worker ended with result r, in order
RECURSIVE Select(_, _)
Select(k, r) ==
    IF k > N THEN <<>>
    ELSE (IF w[k].res = r THEN <<k>> ELSE <<>>) \o Select(k + 1, r)

\* lines 259-273: collect the results into succ_repos and error_repos
Collect ==
    /\ phase = "parallel"
    /\ \A i \in Ids : w[i].pc = "done"
    /\ succ' = Select(1, "ok")
    /\ errs' = Select(1, "err")
    /\ phase' = "done"
    /\ UNCHANGED <<gui, probe, cfgFile, config, opts, rootDir, fs, repos, w, counter, totalBar, faults,
                   runNo, snap, cleaned, intruded>>

\* a panic of the closure leaves the pool through install and ends the command
Unwind ==
    /\ phase = "parallel"
    /\ Panicked
    /\ \A i \in Ids : ~Active(i)
    /\ phase' = "panicked"
    /\ UNCHANGED <<gui, probe, cfgFile, config, opts, rootDir, fs, repos, w, counter, totalBar, succ, errs,
                   faults, runNo, snap, cleaned, intruded>>

\* the user runs the same command again after a run without failures
Rerun ==
    /\ phase = "done" /\ errs = <<>> /\ runNo < MaxRuns
    /\ snap' = fs
    /\ runNo' = runNo + 1
    /\ phase' = "exec"
    /\ repos' = <<>> /\ w' = <<>> /\ succ' = <<>> /\ errs' = <<>>
    /\ counter' = CounterStart /\ totalBar' = 0 /\ cleaned' = 0 /\ intruded' = {}
    /\ UNCHANGED <<gui, probe, cfgFile, config, opts, rootDir, fs, faults>>

---------------------------------------------------------------------------
\* Initial states: a manifest, the options of the command and a workspace.

Master == <<"master">>

\* entries with a commit and a branch, a tag, a branch, or nothing
CommitAndBranch(path) == Entry(Some(path), Some(Url), Some("master"), None, Some(Sha("c3")))
TagOnly(path) == Entry(Some(path), Some(Url), None, Some("v1"), None)
BranchOnly(path) == Entry(Some(path), Some(Url), Some("master"), None, None)
AllThree(path) == Entry(Some(path), Some(Url), Some("master"), Some("v1"), Some(Sha("c3")))
TagAndBranch(path) == Entry(Some(path), Some(Url), Some("develop"), Some("v1"), None)
NoTarget(path) == Entry(Some(path), Some(Url), None, None, None)
ShortCommit(path) ==
    Entry(Some(path), Some(Url), None, None, Some(SubSeq(Sha("c3"), 1, ShortShaLen - 1)))
NoLocal == Entry(None, Some(Url), Some("master"), None, None)
\* a commit the remote does not have
MissingCommit(path) == Entry(Some(path), Some(Url), Some("master"), None, Some(Sha("c9")))

\* TomlConfig (src/commands/mod.rs)
TomlConfig(version, default_branch, default_remote, toml_repos) ==
    [version |-> version, default_branch |-> default_branch,
     default_remote |-> default_remote, repos |-> toml_repos]

\* no progress bar is shown
NoGui ==
    [repos |-> <<>>, current |-> 0, pending |-> 0, run |-> 0, running |-> FALSE, done |-> 0,
     progress |-> [num |-> 0, den |-> 1]]

\* no library routine is called on its own
NoCall ==
    [fn |-> "none", pc |-> "idle", use_tracking_remote |-> FALSE, rev_list |-> None,
     arg |-> <<>>, ret |-> <<>>]

Options(mode, silent, no_track, no_checkout, threads, ignore) ==
    [stash_mode |-> mode, silent |-> silent, no_track |-> no_track,
     no_checkout |-> no_checkout, thread_count |-> threads, ignore |-> ignore]

StashModes == {"Normal", "Stash", "Hard"}
Workspace(a, ab, c) == (<<"a">> :> a) @@ (<<"a", "b">> :> ab) @@ (<<"c">> :> c)

\* several repositories synced by a pool: nested paths, an ignored entry, a failing sibling,
\* a path listed twice and ignored
Concurrent ==
    /\ cfgFile = "ok"
    /\ \E sc \in {<<<<CommitAndBranch(<<"a">>), NoTarget(<<"a", "b">>)>>, <<>>>>,
                   <<<<CommitAndBranch(<<"a">>), NoTarget(<<"a", "b">>), TagOnly(<<"c">>)>>,
                     <<<<"a", "b">>>>>>,
                   <<<<BranchOnly(<<"c">>), NoLocal>>, <<>>>>,
                   <<<<TagOnly(<<"c">>), BranchOnly(<<"c">>)>>, <<<<"c">>>>>>} :
          /\ config = TomlConfig(None, Some("develop"), None, Some(sc[1]))
          /\ opts \in {Options(m, TRUE, TRUE, FALSE, t, sc[2]) :
                          m \in StashModes, t \in 1..MaxThreads}
    /\ fs \in {Workspace(NoDir, NoDir, NoDir),
               Workspace(CleanRepo(Master, "c1"), NoDir, UntrackedRepo(Master, "c1"))}

\* one repository in every shape, every kind of target, every mode
Single ==
    /\ cfgFile = "ok"
    /\ config \in {TomlConfig(None, d, None, Some(<<e>>)) :
                    d \in {None, Some("develop")},
                    e \in {CommitAndBranch(<<"c">>), TagOnly(<<"c">>), BranchOnly(<<"c">>),
                           AllThree(<<"c">>), TagAndBranch(<<"c">>), NoTarget(<<"c">>),
                           ShortCommit(<<"c">>), MissingCommit(<<"c">>)}}
    /\ opts \in {Options(m, s, s, nc, 1, <<>>) :
                    m \in StashModes, s \in BOOLEAN, nc \in BOOLEAN}
    /\ fs \in {Workspace(NoDir, NoDir, c) :
                    c \in {NoDir, CleanRepo(Master, "c1"), EditedRepo(Master, "c1"),
                           UntrackedRepo(Master, "c1"), DetachedRepo(Master, "c2"),
                           EditedRepo(<<"commits">> \o SubSeq(Sha("c3"), 1, ShortShaLen), "c1"),
                           [CleanRepo(Master, "c1") EXCEPT !.rurl = Some(OtherUrl)]}}

\* a manifest that is missing, does not load, or lists no repositories
ConfigError ==
    /\ \/ cfgFile \in {"missing", "unparseable"}
          /\ config = TomlConfig(None, None, None, None)
       \/ cfgFile = "ok"
          /\ config \in {TomlConfig(None, d, None, None) : d \in {None, Some("develop")}}
    /\ opts \in {Options(m, FALSE, FALSE, FALSE, 1, <<>>) : m \in StashModes}
    /\ fs \in {Workspace(NoDir, NoDir, NoDir),
               Workspace(CleanRepo(Master, "c1"), NoDir, EditedRepo(Master, "c1"))}

Init ==
    /\ Concurrent \/ Single \/ ConfigError
    /\ rootDir \in BOOLEAN
    /\ phase = "exec"
    /\ repos = <<>> /\ w = <<>> /\ succ = <<>> /\ errs = <<>>
    /\ counter = CounterStart /\ totalBar = 0
    /\ faults = 0 /\ runNo = 1 /\ snap = fs
    /\ cleaned = 0 /\ intruded = {}
    /\ probe = NoCall
    /\ gui = NoGui

Next ==
    \/ ExecStart
    \/ Cleaner
    \/ Prepare
    \/ \E i \in Ids : Claim(i)
    \/ \E i \in Ids : Mkdir(i)
    \/ \E i \in Ids : IsRepo(i)
    \/ \E i \in Ids : ExecInit(i)
    \/ \E i \in Ids : AddRemote(i)
    \/ \E i \in Ids : Fetch(i)
    \/ \E i \in Ids : ResolveRef(i)
    \/ \E i \in Ids : Validate(i)
    \/ \E i \in Ids : Stash(i)
    \/ \E i \in Ids : Checkout(i)
    \/ \E i \in Ids : Reset(i)
    \/ \E i \in Ids : Pop(i)
    \/ \E i \in Ids : Clean(i)
    \/ \E i \in Ids : Finish(i)
    \/ Collect
    \/ Unwind
    \/ Rerun

Spec == Init /\ [][Next]_vars

---------------------------------------------------------------------------
\* init and snapshot (section 4.F): the walk of the workspace that finds the working trees.

\* the working trees below dir, met depth first; order is the order in which the file
\* system lists the names of a directory
RECURSIVE walk(_, _, _)
walk(tree, dir, order) ==
    LET sub == SelectSeq(order, LAMBDA n : Append(dir, n) \in Paths /\ tree[Append(dir, n)].dir)
        F[k \in 0..Len(sub)] ==
            IF k = 0 THEN <<>>
            ELSE F[k - 1]
                   \o (IF is_repository(tree[Append(dir, sub[k])]) THEN <<Append(dir, sub[k])>>
                       ELSE <<>>)
                   \o walk(tree, Append(dir, sub[k]), order)
    IN  F[Len(sub)]

\* the `local` of the entries of the manifest written: the root as "." with --force
discover(tree, root_is_repo, force, order) ==
    (IF force /\ root_is_repo THEN <<<<".">>>> ELSE <<>>) \o walk(tree, <<>>, order)

---------------------------------------------------------------------------
\* list_files (core/src/ops/list_files.rs).  A string is a sequence of characters and
\* words, "\n" ending a line of the output of git.

\* str::trim: the white space at both ends removed
RECURSIVE trim_start(_)
trim_start(str) ==
    IF str # <<>> /\ IsSpace(Head(str)) THEN trim_start(Tail(str)) ELSE str
RECURSIVE trim_end(_)
trim_end(str) ==
    IF str # <<>> /\ IsSpace(str[Len(str)]) THEN trim_end(SubSeq(str, 1, Len(str) - 1)) ELSE str
trim(str) == trim_end(trim_start(str))

\* str::lines: the pieces between the line ends, no piece after the last line end
RECURSIVE lines(_)
lines(str) ==
    LET nl == {k \in 1..Len(str) : str[k] = "\n"} IN
    IF str = <<>> THEN <<>>
    ELSE IF nl = {} THEN <<str>>
    ELSE LET k == CHOOSE j \in nl : \A i \in nl : j <= i
         IN  <<SubSeq(str, 1, k - 1)>> \o lines(SubSeq(str, k + 1, Len(str)))

\* str::rsplit_once('\t'): what is left and right of the last tab
rsplit_once(line) ==
    LET tabs == {k \in 1..Len(line) : line[k] = "\t"} IN
    IF tabs = {} THEN None
    ELSE LET k == CHOOSE j \in tabs : \A i \in tabs : i <= j
         IN  Some([left |-> SubSeq(line, 1, k - 1), right |-> SubSeq(line, k + 1, Len(line))])

\* utils::path::norm_path: the path written with "/" as its separator
norm_path(path) == [k \in 1..Len(path) |-> IF path[k] = "\\" THEN "/" ELSE path[k]]

\* lines 64-73: a line of ls-files -s joined to the path of its repository
ListedLine(rel_path, line) ==
    LET sp == Unwrap(rsplit_once(line))
        ends_with(ch) == rel_path # <<>> /\ rel_path[Len(rel_path)] = ch
        split_str == IF ~ends_with("\\") /\ ~ends_with("/") THEN <<"/">> ELSE <<>>
    IN  sp.left \o <<"\t">> \o norm_path(rel_path \o split_str \o sp.right)

\* lines 53-77: the lines of one repository; ls_files is what git::ls_files returned
RepoLines(toml_repo, ls_files) ==
    IF ls_files = None THEN <<>>
    ELSE LET ls == lines(trim(Unwrap(ls_files)))
             F[n \in 0..Len(ls)] ==
                 IF n = 0 THEN <<>>
                 ELSE F[n - 1] \o (IF IsSome(rsplit_once(ls[n]))
                                   THEN <<ListedLine(Unwrap(toml_repo.local), ls[n])>>
                                   ELSE <<>>)
         IN  F[Len(ls)]

\* list_files(options): is_dir and file are the workspace directory and the manifest file,
\* replies the results of git::ls_files, one an entry
list_files(is_dir, file, toml_config, replies) ==
    IF ~is_dir \/ file # "ok" \/ toml_config.repos = None THEN [panic |-> FALSE, out |-> <<>>]
    ELSE LET toml_repos == Unwrap(toml_config.repos)
             F[n \in 0..Len(toml_repos)] ==
                 IF n = 0 THEN <<>> ELSE F[n - 1] \o RepoLines(toml_repos[n], replies[n])
         IN  IF \E n \in 1..Len(toml_repos) : toml_repos[n].local = None
             THEN [panic |-> TRUE, out |-> <<>>]
             ELSE [panic |-> FALSE, out |-> F[Len(toml_repos)]]

---------------------------------------------------------------------------
\* The comparator, the serializer and list_files called on their own, on every kind of input.

\* a repository after git init and remote add, before its first commit
UnbornRepo == add_remote_url(init(EmptyDir).s, Url).s
\* a repository whose branch has an upstream
TrackingRepo(s) == [s EXCEPT !.upstream = Some(<<"origin", "master">>)]

EmptyTag(path) == Entry(Some(path), Some(Url), None, Some(""), None)
Blank == Entry(None, None, None, None, None)

CmpCall(use_tracking_remote, rev_list) ==
    [fn |-> "cmp_local_remote", pc |-> "called", use_tracking_remote |-> use_tracking_remote,
     rev_list |-> rev_list, arg |-> <<>>, ret |-> <<>>]
SerializeCall ==
    [fn |-> "serialize", pc |-> "called", use_tracking_remote |-> FALSE, rev_list |-> None,
     arg |-> <<>>, ret |-> <<>>]

\* what a driver other than git may print for rev-list with exit status 0
StubReplies == {<<>>, <<"7">>, <<"1", "2">>, <<"x">>, <<"1", " ", "x", "2">>}

CompareInit ==
    /\ config \in {TomlConfig(None, d, None, Some(<<e>>)) :
                    d \in {None, Some("develop")},
                    e \in {CommitAndBranch(<<"c">>), TagOnly(<<"c">>), BranchOnly(<<"c">>),
                           NoTarget(<<"c">>), ShortCommit(<<"c">>), MissingCommit(<<"c">>),
                           EmptyTag(<<"c">>), NoLocal}}
    /\ fs \in {Workspace(NoDir, NoDir, c) :
                    c \in {NoDir, UnbornRepo, CleanRepo(Master, "c1"), CleanRepo(Master, "c2"),
                           EditedRepo(Master, "c2"), UntrackedRepo(Master, "c1"),
                           DetachedRepo(Master, "c2"), TrackingRepo(CleanRepo(Master, "c2")),
                           TrackingRepo(UntrackedRepo(Master, "c1"))}}
    /\ probe \in {CmpCall(t, rl) : t \in BOOLEAN,
                                   rl \in {None} \cup {Some(out) : out \in StubReplies}}

SerializeInit ==
    /\ config \in {TomlConfig(v, d, r, rs) :
                    v \in {None, Some("1.0")}, d \in {None, Some("develop")},
                    r \in {None, Some(Url)},
                    rs \in {None, Some(<<>>)}
                           \cup {Some(<<e>>) : e \in {AllThree(<<"a">>), NoLocal, Blank}}
                           \cup {Some(<<e, f>>) :
                                    e \in {BranchOnly(<<"a">>), TagAndBranch(<<"a", "b">>)},
                                    f \in {CommitAndBranch(<<"c">>), Blank, TagOnly(<<"a">>)}}}
    /\ fs = Workspace(NoDir, NoDir, NoDir)
    /\ probe = SerializeCall

\* an entry of a manifest that list_files reads: local is the string as written
Listed(local) == Entry(Some(local), Some(Url), None, None, None)

\* what git ls-files -s prints: "<mode> <object> <stage>" (one word here), a tab, the path
LsFiles ==
    {<<>>,
     <<"m1", "\t", "f", "\n">>,
     <<"m1", "\t", "f", "\n", "m2", "\t", "d", "/", "g", "\n">>,
     <<"warning", "\n", "m1", "\t", "f", "\n">>,
     <<"m1", "\t", "f", "\n", "m2", "\t", "g", " ", "\n">>}

ListFilesCall(replies) ==
    [fn |-> "list_files", pc |-> "called", use_tracking_remote |-> FALSE, rev_list |-> None,
     arg |-> replies, ret |-> <<>>]

ListFilesInit ==
    /\ \E rs \in {None, Some(<<>>)}
                 \cup {Some(<<e>>) : e \in {Listed(<<"a">>), Listed(<<"a", "/">>),
                                            Listed(<<"c", "\\">>), NoLocal}}
                 \cup {Some(<<e, f>>) : e \in {Listed(<<"a">>), Listed(<<"a", "/">>), NoLocal},
                                        f \in {Listed(<<"c">>), Listed(<<"c", "\\">>)}} :
        /\ config = TomlConfig(None, None, None, rs)
        /\ probe \in {ListFilesCall(r) :
                        r \in [1..(IF rs = None THEN 0 ELSE Len(Unwrap(rs))) ->
                                  {None} \cup {Some(c) : c \in LsFiles}]}
    /\ \/ cfgFile = "ok" /\ rootDir \in BOOLEAN
       \/ cfgFile \in {"missing", "unparseable"} /\ rootDir = TRUE
    /\ fs = Workspace(NoDir, NoDir, NoDir)

\* the names of the directories, in every order a file system may list them
Listings ==
    {<<"a", "b", "c">>, <<"a", "c", "b">>, <<"b", "a", "c">>, <<"b", "c", "a">>,
     <<"c", "a", "b">>, <<"c", "b", "a">>}

DiscoverCall(root_is_repo, force, order) ==
    [fn |-> "discover", pc |-> "called", use_tracking_remote |-> FALSE, rev_list |-> None,
     arg |-> [root_is_repo |-> root_is_repo, force |-> force, order |-> order], ret |-> <<>>]

\* a workspace of plain directories and working trees, some inside others
DiscoverInit ==
    /\ fs \in {Workspace(a, ab, c) :
                    a \in {NoDir, EmptyDir, CleanRepo(Master, "c1")},
                    ab \in {NoDir, EmptyDir, CleanRepo(Master, "c2")},
                    c \in {NoDir, EmptyDir, CleanRepo(Master, "c1")}}
    /\ fs[<<"a", "b">>].dir => fs[<<"a">>].dir
    /\ probe \in {DiscoverCall(r, f, o) : r \in BOOLEAN, f \in BOOLEAN, o \in Listings}
    /\ config = TomlConfig(None, None, None, None)
    /\ cfgFile = "missing" /\ rootDir = TRUE

LibInit ==
    /\ \/ (CompareInit \/ SerializeInit) /\ cfgFile = "ok" /\ rootDir = TRUE
       \/ ListFilesInit
       \/ DiscoverInit
    /\ phase = "lib"
    /\ gui = NoGui
    /\ opts = Options("Normal", TRUE, TRUE, FALSE, 1, <<>>)
    /\ repos = <<>> /\ w = <<>> /\ succ = <<>> /\ errs = <<>>
    /\ counter = CounterStart /\ totalBar = 0
    /\ faults = 0 /\ runNo = 1 /\ snap = fs
    /\ cleaned = 0 /\ intruded = {}

\* cmp_local_remote(input_path, toml_repo, default_branch, use_tracking_remote)
Compare ==
    /\ probe.fn = "cmp_local_remote" /\ probe.pc = "called"
    /\ LET e == Unwrap(config.repos)[1]
           r == Comparator(IF IsSome(e.local) THEN fs[Unwrap(e.local)] ELSE NoDir, e,
                           config.default_branch, probe.use_tracking_remote, probe.rev_list)
       IN  /\ probe' = [probe EXCEPT !.pc = IF r.kind = "panic" THEN "panicked" ELSE "returned",
                                     !.ret = r]
           /\ fs' = IF IsSome(e.local) THEN [fs EXCEPT ![Unwrap(e.local)] = r.s] ELSE fs
    /\ UNCHANGED <<gui, cfgFile, config, opts, rootDir, phase, repos, w, counter, totalBar, succ,
                   errs, faults, runNo, snap, cleaned, intruded>>

\* toml_config.serialize()
Serialize ==
    /\ probe.fn = "serialize" /\ probe.pc = "called"
    /\ probe' = [probe EXCEPT !.pc = "returned", !.ret = serialize(config)]
    /\ UNCHANGED <<gui, cfgFile, config, opts, rootDir, fs, phase, repos, w, counter, totalBar,
                   succ, errs, faults, runNo, snap, cleaned, intruded>>

\* list_files(options)
ListFiles ==
    /\ probe.fn = "list_files" /\ probe.pc = "called"
    /\ LET r == list_files(rootDir, cfgFile, config, probe.arg)
       IN  probe' = [probe EXCEPT !.pc = IF r.panic THEN "panicked" ELSE "returned",
                                  !.ret = r.out]
    /\ UNCHANGED <<gui, cfgFile, config, opts, rootDir, fs, phase, repos, w, counter, totalBar,
                   succ, errs, faults, runNo, snap, cleaned, intruded>>

\* mgit init / mgit snapshot: the entries found
Discover ==
    /\ probe.fn = "discover" /\ probe.pc = "called"
    /\ probe' = [probe EXCEPT !.pc = "returned",
                              !.ret = discover(fs, probe.arg.root_is_repo, probe.arg.force,
                                               probe.arg.order)]
    /\ UNCHANGED <<gui, cfgFile, config, opts, rootDir, fs, phase, repos, w, counter, totalBar,
                   succ, errs, faults, runNo, snap, cleaned, intruded>>

LibNext == Compare \/ Serialize \/ ListFiles \/ Discover

Lib == LibInit /\ [][LibNext]_vars

---------------------------------------------------------------------------
\* The progress bar of the editor (gui/src/editor/widgets/progress_bar.rs).  The counter
\* is shared with the operation that runs on the repos; progress is the fraction num/den.

\* reset threads asleep at one time
MaxResets == 3
\* operations started in one behaviour
MaxOps == 3

\* lines 17-20: the repos that are not ignored
Total(repo_states) == Cardinality({k \in 1..Len(repo_states) : repo_states[k].no_ignore})

\* ProgressBar::new, lines 16-28
ProgressBar_new(current, repo_states) ==
    LET total == Total(repo_states)
        current_rate == current
    IN  IF total > 0 THEN [num |-> current_rate, den |-> total] ELSE [num |-> 0, den |-> 1]

RepoState(no_ignore) == [no_ignore |-> no_ignore]

GuiInit ==
    /\ gui \in {[NoGui EXCEPT !.repos = rs] :
                   rs \in {<<>>, <<RepoState(FALSE)>>, <<RepoState(TRUE)>>,
                           <<RepoState(TRUE), RepoState(FALSE)>>,
                           <<RepoState(TRUE), RepoState(TRUE)>>}}
    /\ phase = "gui"
    /\ probe = NoCall
    /\ cfgFile = "ok" /\ rootDir = TRUE
    /\ config = TomlConfig(None, None, None, None)
    /\ fs = Workspace(NoDir, NoDir, NoDir)
    /\ opts = Options("Normal", TRUE, TRUE, FALSE, 1, <<>>)
    /\ repos = <<>> /\ w = <<>> /\ succ = <<>> /\ errs = <<>>
    /\ counter = CounterStart /\ totalBar = 0
    /\ faults = 0 /\ runNo = 1 /\ snap = fs
    /\ cleaned = 0 /\ intruded = {}

Rest == UNCHANGED <<cfgFile, config, opts, rootDir, fs, phase, repos, w, counter, totalBar,
                    succ, errs, faults, runNo, snap, cleaned, intruded, probe>>

\* a frame: ProgressBar::new and ui, lines 33-71; at progress >= 1.0 a thread is spawned
\* that sleeps and then resets the counter
Ui ==
    /\ phase = "gui"
    /\ LET bar == ProgressBar_new(gui.current, gui.repos)
           progress == bar
           spawns == progress.num > 0 /\ progress.num >= progress.den
       IN  /\ spawns => gui.pending < MaxResets
           /\ gui' = [gui EXCEPT !.progress = progress,
                                 !.pending = IF spawns THEN @ + 1 ELSE @]
    /\ Rest

\* lines 63-66: a spawned thread wakes up and stores 0
ResetThread ==
    /\ phase = "gui" /\ gui.pending > 0
    /\ gui' = [gui EXCEPT !.current = 0, !.pending = @ - 1]
    /\ Rest

\* the user starts an operation on the repos that are not ignored, the bar being empty
StartOp ==
    /\ phase = "gui" /\ ~gui.running /\ gui.current = 0 /\ gui.run < MaxOps
    /\ gui' = [gui EXCEPT !.run = @ + 1, !.done = 0, !.running = Total(gui.repos) > 0]
    /\ Rest

\* the operation is through with one more repo: fetch_add(1) on the counter
RepoDone ==
    /\ phase = "gui" /\ gui.running
    /\ gui' = [gui EXCEPT !.current = @ + 1, !.done = @ + 1,
                          !.running = gui.done + 1 < Total(gui.repos)]
    /\ Rest

GuiNext == Ui \/ ResetThread \/ StartOp \/ RepoDone

Gui == GuiInit /\ [][GuiNext]_vars

---------------------------------------------------------------------------
\* Helpers of the properties.

SameRef(x, y) == x.kind = y.kind /\ x.val = y.val
Count(seq, x) == Cardinality({k \in 1..Len(seq) : seq[k] = x})
Ops(i) == {w[i].trace[k] : k \in 1..Len(w[i].trace)}
\* the commit a full object name stands for
CommitOf(sha) == CHOOSE c \in Commits \cup {NoCommit} : c = NoCommit \/ Sha(c) = sha
\* was the repository of entry i on the branch its target is checked out on when the run began
OnTargetBranch(i) ==
    LET s == snap[PathOf(i)]
        e == WithDefaultBranch(repos[i], config.default_branch)
        r == get_remote_ref(e, s)
        cb == get_current_branch(s)
    IN  r.ok /\ ~SlicePanics(r.out) /\ cb.ok /\ cb.out = DisplayBranch(e, r.out)

\* C1: for an entry whose remote URL matches a configured remote, get_remote_ref returns
\* Commit(commit) if commit is set, else Tag(tag) if tag is set, else
\* Branch(<remote_name>/<branch>) if branch is set, else the error "remote ref is invalid!";
\* this holds of every entry against its repository and of every ref a worker resolved.
C1_Precedence ==
    \A i \in Ids :
        IsSome(repos[i].local) =>
            LET s == fs[PathOf(i)]
                e == w[i].ent
                rn == get_remote_name(e, s)
                r == get_remote_ref(e, s)
            IN  /\ rn.ok =>
                     /\ IsSome(e.commit) => r.ok /\ SameRef(r.out, RemoteRef("Commit", Unwrap(e.commit)))
                     /\ e.commit = None /\ IsSome(e.tag) =>
                            r.ok /\ SameRef(r.out, RemoteRef("Tag", Unwrap(e.tag)))
                     /\ e.commit = None /\ e.tag = None /\ IsSome(e.branch) =>
                            r.ok /\ SameRef(r.out, RemoteRef("Branch", <<rn.out, Unwrap(e.branch)>>))
                     /\ e.commit = None /\ e.tag = None /\ e.branch = None =>
                            ~r.ok /\ r.out.val = "remote ref is invalid!"
                /\ w[i].ref.kind # "Err" =>
                     /\ IsSome(e.commit) => w[i].ref.kind = "Commit"
                     /\ e.commit = None /\ IsSome(e.tag) => w[i].ref.kind = "Tag"
                     /\ e.commit = None /\ e.tag = None => w[i].ref.kind = "Branch"

\* an entry with commit, tag and branch was resolved, to its commit
C1_Witness ==
    \E i \in Ids :
        /\ IsSome(w[i].ent.commit) /\ IsSome(w[i].ent.tag) /\ IsSome(w[i].ent.branch)
        /\ w[i].ref.kind = "Commit"

\* C2: an entry that declares commit and branch, whatever the stash mode and no_checkout:
\* when its state machine returned success, HEAD is the configured commit.
C2_HeadIsCommit ==
    \A i \in Ids :
        (w[i].pc = "done" /\ w[i].res = "ok" /\ IsSome(repos[i].commit) /\ IsSome(repos[i].branch))
        => Sha(fs[PathOf(i)].head) = Unwrap(repos[i].commit)

\* a synced entry with commit and branch whose branch tip is another commit (Stash mode, no checkout)
C2_Witness ==
    \E i \in Ids :
        /\ w[i].pc = "done" /\ w[i].res = "ok"
        /\ IsSome(repos[i].commit) /\ IsSome(repos[i].branch)
        /\ RemoteTip(Unwrap(repos[i].branch)) # CommitOf(Unwrap(repos[i].commit))
        /\ w[i].mode = "Stash" /\ opts.no_checkout

\* C3: after a run in which every repository succeeded, a second run with the same
\* manifest and options reports no failure and leaves every repository as the first left it
\* (no call failing for an outside reason).
C3_Idempotent ==
    (phase = "done" /\ runNo = 2 /\ faults = 0) => (errs = <<>> /\ fs = snap)

\* C4: Normal mode with checkout: a modification of the tracked file in a repository that
\* already is on the target branch is in the working tree again after the sync.
C4_Preserved ==
    \A i \in Ids :
        (/\ runNo = 1 /\ w[i].pc = "done"
         /\ opts.stash_mode = "Normal" /\ w[i].mode = "Normal" /\ ~opts.no_checkout
         /\ snap[PathOf(i)].wrk.e /\ OnTargetBranch(i))
        => (fs[PathOf(i)].wrk = snap[PathOf(i)].wrk /\ ~fs[PathOf(i)].unmerged)

\* C5: a step of one unit of work changes no other unit's position, result or step
\* sequence, and when the run ends with a failed entry every entry whose own steps
\* succeeded is in the successes.
C5_Isolation ==
    /\ [][(phase = "parallel" /\ phase' = "parallel") =>
            \A i, j \in Ids : (i # j /\ w'[i] # w[i]) => w'[j] = w[j]]_vars
    /\ [](phase = "done" =>
            \A i \in Ids : w[i].res = "ok" => Count(succ, i) = 1)

\* a finished run with a failed entry and a successful one
C5_Witness ==
    /\ phase = "done"
    /\ \E i, j \in Ids : w[i].res = "err" /\ w[j].res = "ok" /\ Count(succ, j) = 1

\* C6: at most thread_count entries are between claiming their display index and
\* completing their unit of work.
C6_ConcurrencyBound ==
    phase = "parallel" => Cardinality({i \in Ids : Active(i)}) <= opts.thread_count

\* every thread of the pool is busy and an entry waits
C6_Witness ==
    /\ phase = "parallel"
    /\ Cardinality({i \in Ids : Active(i)}) = opts.thread_count
    /\ \E j \in Ids : w[j].pc = "queued"

\* C7: a panic in one unit of work becomes a Failure outcome of that entry and never
\* reaches the caller.
C7_PanicIsFailure ==
    /\ phase # "panicked"
    /\ phase = "done" => \A i \in Ids : w[i].pc = "panicked" => Count(errs, i) = 1

\* C8: when the parallel section completes every entry left by the ignore filter is once
\* in successes or failures, in successes iff its state machine returned Ok, and
\* |successes| + |failures| = N.
C8_OneOutcome ==
    phase = "done" =>
        /\ Len(succ) + Len(errs) = N
        /\ \A i \in Ids :
            /\ Count(succ, i) + Count(errs, i) = 1
            /\ Count(succ, i) = 1 <=> w[i].res = "ok"

\* a completed run with one success and one failure
C8_Witness == phase = "done" /\ Len(succ) = 1 /\ Len(errs) = 1

\* C9: with pairwise distinct local paths, no step of one entry's state machine creates or
\* deletes files inside the working tree of an entry whose state machine is running.
C9_ExclusiveTrees ==
    (\A i, j \in Ids : (i # j /\ IsSome(repos[i].local) /\ IsSome(repos[j].local))
                        => PathOf(i) # PathOf(j))
    => intruded = {}

\* C10: a manifest that is missing, does not load or lists no repositories: the command
\* returns without a git operation or a change of the workspace.
C10_ConfigErrorTouchesNothing ==
    phase = "returned" => (fs = snap /\ cleaned = 0)

---------------------------------------------------------------------------
\* The steps of a state machine, read from the calls it logged.

\* the calls that change a working tree, as logged
Mutators == {"stash", "clean", "checkout", "--soft", "--mixed", "--hard", "stash_pop"}
Did(i, op) == \E k \in 1..Len(w[i].trace) : w[i].trace[k] = op
Okd(i, op) == \E k \in 1..Len(w[i].trace) : w[i].trace[k] = op /\ w[i].oks[k]
Before(i, a, b) ==
    \E j, k \in 1..Len(w[i].trace) : j < k /\ w[i].trace[j] = a /\ w[i].trace[k] = b
Returned(i) == w[i].pc \in {"finish", "done"}
Compatible(s, t) == IsPrefix(s, t) \/ IsPrefix(t, s)

C12_Bootstrap ==
    /\ [][\A i \in Ids :
            (phase = "parallel" /\ w[i].pc = "is_repo" /\ w'[i].pc # "is_repo") =>
                IF fs[PathOf(i)].dir /\ fs[PathOf(i)].git
                THEN w'[i].pc = "fetch" /\ w'[i].mode = opts.stash_mode
                ELSE w'[i].pc = "init" /\ w'[i].mode = "Hard"]_vars
    /\ [](\A i \in Ids :
            LET t == w[i].trace
                o == w[i].oks
                head == IF Len(t) > 5 THEN SubSeq(t, 1, 5) ELSE t
            IN  /\ IF Len(t) >= 2 /\ ~o[2]
                   THEN /\ Compatible(head, <<"create_dir_all", "is_repository", "init",
                                              "add_remote", "fetch">>)
                        /\ w[i].mode = "Hard"
                   ELSE /\ Compatible(IF Len(t) > 3 THEN SubSeq(t, 1, 3) ELSE t,
                                      <<"create_dir_all", "is_repository", "fetch">>)
                        /\ w[i].mode = opts.stash_mode
                /\ \A k \in 1..Len(t) :
                      (t[k] \in {"create_dir_all", "init", "add_remote"} /\ ~o[k])
                      => (k = Len(t) /\ w[i].res = "err" /\ Returned(i)))

\* a directory that was no repository, synced to the end by a command in Normal mode
C12_Witness ==
    \E i \in Ids :
        /\ opts.stash_mode = "Normal" /\ w[i].mode = "Hard"
        /\ Before(i, "init", "add_remote") /\ Before(i, "add_remote", "fetch")
        /\ w[i].pc = "done" /\ w[i].res = "ok"

\* C13: a call that changes the working tree is preceded, in this order, by a fetch, a
\* get_remote_ref and an is_remote_ref_valid that succeeded; a failure of one of the
\* three is the last step of the state machine and its result.
C13_ValidatedFirst ==
    \A i \in Ids :
        LET t == w[i].trace
            o == w[i].oks
        IN  /\ \A k \in 1..Len(t) :
                  t[k] \in Mutators =>
                      \E a, b, c \in 1..(k - 1) :
                          /\ a < b /\ b < c
                          /\ t[a] = "fetch" /\ o[a]
                          /\ t[b] = "get_remote_ref" /\ o[b]
                          /\ t[c] = "is_remote_ref_valid" /\ o[c]
                          /\ w[i].ref.kind # "Err"
            /\ \A k \in 1..Len(t) :
                  (t[k] \in {"fetch", "get_remote_ref", "is_remote_ref_valid"} /\ ~o[k])
                  => (k = Len(t) /\ w[i].res = "err" /\ Returned(i))

\* a target the remote does not have: the state machine ended at the validation
C13_Witness ==
    \E i \in Ids :
        /\ faults = 0 /\ Returned(i) /\ w[i].res = "err"
        /\ Did(i, "is_remote_ref_valid") /\ ~Okd(i, "is_remote_ref_valid")
        /\ Okd(i, "fetch") /\ Okd(i, "get_remote_ref")

C15_NormalSequence ==
    \A i \in Ids :
        (w[i].mode = "Normal" /\ ~opts.no_checkout) =>
            /\ ~Did(i, "clean") /\ ~Did(i, "--soft") /\ ~Did(i, "--mixed")
            /\ Did(i, "checkout") =>
                  /\ Before(i, "stash", "checkout")
                  /\ IsSome(w[i].argv) => ~Unwrap(w[i].argv).force
            /\ Did(i, "--hard") => Before(i, "checkout", "--hard")
            /\ Did(i, "stash_pop") => Before(i, "checkout", "stash_pop")
            /\ (Returned(i) /\ Did(i, "stash")) =>
                  /\ Did(i, "checkout")
                  /\ Did(i, "--hard") <=> Okd(i, "checkout")
                  /\ w[i].res = IF Okd(i, "checkout") /\ Okd(i, "--hard") THEN "ok" ELSE "err"

\* the stash failed, checkout and reset --hard ran and the state machine returned Ok
C15_Witness ==
    \E i \in Ids :
        /\ w[i].mode = "Normal" /\ ~opts.no_checkout /\ w[i].pc = "done"
        /\ Did(i, "stash") /\ ~Okd(i, "stash")
        /\ Okd(i, "checkout") /\ Okd(i, "--hard") /\ w[i].res = "ok"

\* the state machine left exec_sync_with_progress: by a return or by a panic
Left(i) == Returned(i) \/ w[i].pc = "panicked"
\* the checkout or the reset of the state machine returned an error
PrimaryFailed(i) ==
    \/ Did(i, "checkout") /\ ~Okd(i, "checkout")
    \/ \E op \in {"--soft", "--mixed", "--hard"} : Did(i, op) /\ ~Okd(i, op)

\* C16: Normal mode with checkout: once the state machine is over, stash pop has run iff
\* the message of the stash step contained "WIP", after the checkout, and a failed stash
\* pop leaves the result what checkout and reset made it.
C16_PopIffWIP ==
    \A i \in Ids :
        (w[i].mode = "Normal" /\ ~opts.no_checkout /\ Did(i, "stash") /\ Left(i)) =>
            /\ Did(i, "stash_pop") <=> HasWIP(w[i])
            /\ Did(i, "stash_pop") => Before(i, "checkout", "stash_pop")
            /\ Returned(i) => (w[i].res = "err" <=> PrimaryFailed(i))

\* C17: Normal mode with no_checkout: the only call that changes the working tree is
\* reset --soft, and its result is the result of the state machine.
C17_SoftResetOnly ==
    \A i \in Ids :
        (w[i].mode = "Normal" /\ opts.no_checkout) =>
            /\ \A op \in Mutators \ {"--soft"} : ~Did(i, op)
            /\ (Returned(i) /\ Okd(i, "is_remote_ref_valid")) =>
                  /\ Did(i, "--soft")
                  /\ w[i].res = IF Okd(i, "--soft") THEN "ok" ELSE "err"
            /\ Okd(i, "--soft") =>
                  /\ fs[PathOf(i)].head = Resolve(fs[PathOf(i)], w[i].ref)
                  /\ runNo = 1 =>
                        /\ fs[PathOf(i)].wrk = snap[PathOf(i)].wrk
                        /\ fs[PathOf(i)].idx = snap[PathOf(i)].idx
                        /\ fs[PathOf(i)].stash = snap[PathOf(i)].stash

\* an edited repository moved to another commit by reset --soft, the edit in place
C17_Witness ==
    \E i \in Ids :
        /\ w[i].mode = "Normal" /\ opts.no_checkout /\ w[i].pc = "done" /\ w[i].res = "ok"
        /\ runNo = 1 /\ snap[PathOf(i)].wrk.e
        /\ fs[PathOf(i)].head # snap[PathOf(i)].head

\* C18: Stash mode: a failed stash does not end the state machine; when checkout --force
\* or the reset fails, stash pop runs once if the stash message contained "WIP" and not
\* at all otherwise, and the state machine returns the error.
C18_StashRecovery ==
    \A i \in Ids :
        (w[i].mode = "Stash" /\ Returned(i) /\ Did(i, "stash")) =>
            /\ Did(i, "checkout") \/ Did(i, "--mixed")
            /\ (Did(i, "checkout") /\ IsSome(w[i].argv)) => Unwrap(w[i].argv).force
            /\ PrimaryFailed(i) =>
                  /\ w[i].res = "err"
                  /\ Count(w[i].trace, "stash_pop") = IF HasWIP(w[i]) THEN 1 ELSE 0
                  /\ Did(i, "stash_pop") => w[i].trace[Len(w[i].trace)] = "stash_pop"

\* a stash that saved an entry, a failed checkout --force, the stash popped
C18_Witness ==
    \E i \in Ids :
        /\ w[i].mode = "Stash" /\ w[i].pc = "done" /\ w[i].res = "err"
        /\ HasWIP(w[i]) /\ Did(i, "checkout") /\ ~Okd(i, "checkout") /\ Okd(i, "stash_pop")
        /\ runNo = 1 /\ fs[PathOf(i)].wrk = snap[PathOf(i)].wrk

\* C19 as stated: in Stash mode stash pop is executed only when checkout and reset
\* succeeded, never in a state machine that returns an error.
C19_PopOnlyOnSuccess ==
    \A i \in Ids :
        (w[i].mode = "Stash" /\ Returned(i) /\ Did(i, "stash_pop")) => w[i].res = "ok"

\* C19: in Stash mode stash pop is executed only in a state machine whose checkout or
\* reset failed after a stash that saved an entry; a state machine that returns Ok has
\* not popped and keeps the entry it stashed.
C19_PopOnlyOnFailure ==
    \A i \in Ids :
        (w[i].mode = "Stash" /\ Returned(i)) =>
            /\ Did(i, "stash_pop") => (w[i].res = "err" /\ HasWIP(w[i]) /\ PrimaryFailed(i))
            /\ (w[i].res = "ok" /\ HasWIP(w[i])) =>
                  (~Did(i, "stash_pop") /\ fs[PathOf(i)].stash # <<>>)

\* a successful Stash mode sync that left its stash entry on the stack
C19_Witness ==
    \E i \in Ids :
        /\ w[i].mode = "Stash" /\ w[i].pc = "done" /\ w[i].res = "ok"
        /\ HasWIP(w[i]) /\ fs[PathOf(i)].stash # <<>>

C21_HardSequence ==
    \A i \in Ids :
        w[i].mode = "Hard" =>
            /\ \A op \in {"stash", "stash_pop", "--soft", "--mixed"} : ~Did(i, op)
            /\ Did(i, "checkout") =>
                  /\ ~opts.no_checkout /\ Okd(i, "clean") /\ Before(i, "clean", "checkout")
                  /\ IsSome(w[i].argv) => Unwrap(w[i].argv).force
            /\ Did(i, "--hard") =>
                  /\ Okd(i, "clean") /\ Before(i, "clean", "--hard")
                  /\ opts.no_checkout \/ (Okd(i, "checkout") /\ Before(i, "checkout", "--hard"))
            /\ (Returned(i) /\ Did(i, "clean")) =>
                  /\ Okd(i, "clean") => (opts.no_checkout \/ Did(i, "checkout"))
                  /\ (Okd(i, "clean") /\ (opts.no_checkout \/ Okd(i, "checkout")))
                     => Did(i, "--hard")
                  /\ w[i].res = IF Okd(i, "clean") /\ Okd(i, "--hard") THEN "ok" ELSE "err"

\* a Hard sync whose checkout --force failed after the clean: no reset ran
C21_Witness ==
    \E i \in Ids :
        /\ w[i].mode = "Hard" /\ w[i].pc = "done" /\ w[i].res = "err"
        /\ Okd(i, "clean") /\ Did(i, "checkout") /\ ~Okd(i, "checkout") /\ ~Did(i, "--hard")

\* the display name of a resolved ref: commits/<7 chars>, tags/<tag> or the entry's branch
TargetBranch(e, ref) ==
    IF ref.kind = "Commit" THEN <<"commits">> \o SubSeq(ref.val, 1, 7)
    ELSE IF ref.kind = "Tag" THEN <<"tags", ref.val>>
    ELSE <<Unwrap(e.branch)>>

\* C22: a checkout that is not short-circuited gets its argv from (local branch exists,
\* force) alone: (no, no) -B <branch> <ref> --no-track; (no, yes) the same with -f;
\* (yes, no) <branch>; (yes, yes) -B <branch> -f; <branch> is the display name and <ref>
\* the resolved remote ref.
C22_CheckoutArgv ==
    [][\A i \in Ids :
        (phase = "parallel" /\ w[i].pc = "checkout" /\ w'[i].pc \notin {"checkout", "panicked"}
         /\ IsSome(w'[i].argv)) =>
            LET s == fs[PathOf(i)]
                a == Unwrap(w'[i].argv)
                exist == TargetBranch(w[i].ent, w[i].ref) \in DOMAIN s.heads
                force == w[i].mode # "Normal"
            IN  /\ a.b = TargetBranch(w[i].ent, w[i].ref)
                /\ a.force = force
                /\ a.reset = (~exist \/ force)
                /\ a.notrack = ~exist
                /\ IF exist THEN a.start = None
                   ELSE IsSome(a.start) /\ SameRef(Unwrap(a.start), w[i].ref)]_vars

\* a forced checkout of a local branch that exists and is not the current one
C22_Witness ==
    \E i \in Ids :
        /\ Did(i, "checkout") /\ IsSome(w[i].argv)
        /\ Unwrap(w[i].argv).force /\ Unwrap(w[i].argv).reset
        /\ Unwrap(w[i].argv).start = None

\* C23: when get_current_branch succeeds with the display branch, the checkout step
\* returns Ok, runs no git checkout and leaves the repository, forced or not; when
\* get_current_branch fails the checkout is attempted.
C23_ShortCircuit ==
    [][\A i \in Ids :
        (phase = "parallel" /\ w[i].pc = "checkout" /\ w'[i].pc \notin {"checkout", "panicked"}
         /\ faults' = faults) =>
            LET s == fs[PathOf(i)]
                cb == get_current_branch(s)
            IN  /\ (cb.ok /\ cb.out = TargetBranch(w[i].ent, w[i].ref)) =>
                      /\ w'[i].argv = None /\ w'[i].pc = "reset"
                      /\ fs'[PathOf(i)] = s
                /\ ~(cb.ok /\ cb.out = TargetBranch(w[i].ent, w[i].ref)) => IsSome(w'[i].argv)]_vars

\* a forced checkout short-circuited on a repository with local changes
C23_Witness ==
    \E i \in Ids :
        /\ w[i].mode = "Stash" /\ Okd(i, "checkout") /\ w[i].argv = None
        /\ HasWIP(w[i])

\* C24: the tracking step has run for an entry, after its state machine, iff the state
\* machine returned Ok and no_track is not set; whatever it does, an entry whose state
\* machine returned Ok is among the successes and the failures are those whose state
\* machine returned an error.
C24_TrackingAdvisory ==
    \A i \in Ids :
        /\ w[i].pc \in {"done", "panicked"} =>
              (Did(i, "track") <=> (w[i].res = "ok" /\ ~opts.no_track))
        /\ Did(i, "track") => w[i].trace[Len(w[i].trace)] = "track"
        /\ phase = "done" =>
              /\ Count(succ, i) = 1 <=> w[i].res = "ok"
              /\ Count(errs, i) = 1 <=> w[i].res = "err"

\* C25: the entries the command works on are the entries of the manifest without those
\* whose displayed `local` equals an ignore token, in the manifest's order.
C25_IgnoreIsFilter ==
    phase = "parallel" =>
        LET all == Unwrap(config.repos)
            ignored(e) == /\ IsSome(e.local)
                          /\ \E k \in 1..Len(opts.ignore) :
                                display_path(Unwrap(e.local)) = opts.ignore[k]
            kept(e) == ~ignored(e)
        IN  repos = SelectSeq(all, kept)

\* the git invocations that only read
Inspection ==
    {"remote -v", "rev-parse", "ls-files", "diff", "diff --cached", "branch --show-current",
     "branch -l", "rev-list", "show-branch"}

\* the comparator was called and is over (it returned or it panicked)
Compared == probe.fn = "cmp_local_remote" /\ probe.pc # "called"
\* the entry it was called for and the repository it was called on
ComparedEntry == Unwrap(config.repos)[1]
ComparedRepo == snap[Unwrap(ComparedEntry.local)]

\* C26: whatever the comparator gives (a summary, an error, a panic) it has invoked only
\* inspection calls of git, and HEAD, the branches, the index, the working tree, the
\* untracked files and the stash stack of every repository are as before the call.
C26_ComparatorReadOnly ==
    Compared =>
        /\ \A k \in 1..Len(probe.ret.calls) : probe.ret.calls[k] \in Inspection
        /\ \A p \in Paths :
              /\ fs[p].head = snap[p].head /\ fs[p].cur = snap[p].cur
              /\ fs[p].heads = snap[p].heads /\ fs[p].idx = snap[p].idx
              /\ fs[p].wrk = snap[p].wrk /\ fs[p].untracked = snap[p].untracked
              /\ fs[p].added = snap[p].added /\ fs[p].stash = snap[p].stash

\* the comparator went through every step on a repository with an untracked file
C26_Witness ==
    /\ Compared /\ probe.ret.kind = "diff"
    /\ probe.ret.calls[Len(probe.ret.calls)] = "rev-list"
    /\ probe.ret.changes_desc # <<>>
    /\ ComparedRepo.untracked

\* C27: called with use_tracking_remote on a repository whose current branch has no
\* upstream, the comparator returns the summary "not tracking".
C27_NotTracking ==
    (/\ Compared /\ probe.use_tracking_remote /\ IsSome(ComparedEntry.local)
     /\ get_current_branch(ComparedRepo).ok /\ ComparedRepo.upstream = None)
        => probe.pc = "returned" /\ probe.ret.kind = "not tracking"

\* C28: on a repository without a current branch name (a detached HEAD, or a branch that
\* does not exist before the first commit) a comparator that got as far as the current
\* branch returns the summary "init commit".
C28_InitCommit ==
    (/\ Compared /\ IsSome(ComparedEntry.local)
     /\ is_repository(ComparedRepo)
     /\ (ComparedRepo.cur = None \/ Unwrap(ComparedRepo.cur) \notin DOMAIN ComparedRepo.heads)
     /\ \E k \in 1..Len(probe.ret.calls) : probe.ret.calls[k] = "ls-files")
        => probe.pc = "returned" /\ probe.ret.kind = "init commit"

\* does the output hold two runs of digits with white space between them
TwoRuns(out) ==
    \E i, k \in 1..Len(out) :
        /\ i + 1 < k /\ IsDigit(out[i]) /\ IsDigit(out[k])
        /\ \A j \in (i + 1)..(k - 1) : IsSpace(out[j])

\* C29: when rev-list failed, or succeeded with an output without two runs of digits
\* separated by white space, the commit fragment is the "unknown revision" fragment and
\* the repository is not reported as up to date.
C29_UnknownRevision ==
    (/\ Compared /\ probe.pc = "returned"
     /\ \E k \in 1..Len(probe.ret.calls) : probe.ret.calls[k] = "rev-list"
     /\ (~probe.ret.rl.ok \/ ~TwoRuns(probe.ret.rl.out)))
        => /\ probe.ret.commit_desc = fmt_unknown_revision_desc
           /\ probe.ret.kind # "already update to date."

\* the top-level keys and the keys of an entry, in the order of the text
HeaderKeys == <<"version", "default-branch", "default-remote">>
RepoKeys == <<"local", "remote", "branch", "tag", "commit">>
HeaderField(cfg, key) ==
    CASE key = "version" -> cfg.version [] key = "default-branch" -> cfg.default_branch
      [] key = "default-remote" -> cfg.default_remote
RepoField(e, key) ==
    CASE key = "local" -> e.local [] key = "remote" -> e.remote [] key = "branch" -> e.branch
      [] key = "tag" -> e.tag [] key = "commit" -> e.commit
\* the line `key = "value"`
IsKeyLine(line, key, o) ==
    /\ Len(line) >= 4 /\ line[1] = key /\ line[2] = "=" /\ line[3] = "\""
    /\ line[Len(line)] = "\""
    /\ SubSeq(line, 4, Len(line) - 1) = Words(key, Unwrap(o))
\* how many of the first n keys are present
RECURSIVE Present(_, _, _)
Present(e, keys, n) ==
    IF n = 0 THEN 0
    ELSE Present(e, keys, n - 1) + (IF IsSome(RepoField(e, keys[n])) THEN 1 ELSE 0)
RECURSIVE PresentHeader(_, _)
PresentHeader(cfg, n) ==
    IF n = 0 THEN 0
    ELSE PresentHeader(cfg, n - 1) + (IF IsSome(HeaderField(cfg, HeaderKeys[n])) THEN 1 ELSE 0)
\* the line number of the [[repos]] line of entry j
RECURSIVE BlockStart(_, _)
BlockStart(cfg, j) ==
    IF j = 1 THEN 2 + PresentHeader(cfg, 3) + 2
    ELSE BlockStart(cfg, j - 1) + Present(Unwrap(cfg.repos)[j - 1], RepoKeys, 5) + 2

\* C30: the text of a manifest is the two preamble lines, a line for each present
\* top-level field in the order version, default-branch, default-remote, a blank line,
\* and for each entry in the manifest's order the [[repos]] line, a line for each present
\* field in the order local, remote, branch, tag, commit, and a blank line; nothing else.
C30_SerializeFormat ==
    (probe.fn = "serialize" /\ probe.pc = "returned") =>
        LET out == probe.ret
            h == PresentHeader(config, 3)
            list == IF IsSome(config.repos) THEN Unwrap(config.repos) ELSE <<>>
            n == Len(list)
            end == IF n = 0 THEN 3 + h
                   ELSE BlockStart(config, n) + Present(list[n], RepoKeys, 5) + 1
        IN  /\ Len(out) = end
            /\ out[1] = <<"# This file is automatically @generated by mgit.">>
            /\ out[2] = <<"# Editing it as you wish.">>
            /\ \A k \in 1..3 :
                  IsSome(HeaderField(config, HeaderKeys[k])) =>
                      IsKeyLine(out[2 + PresentHeader(config, k)], HeaderKeys[k],
                                HeaderField(config, HeaderKeys[k]))
            /\ out[3 + h] = <<>>
            /\ \A j \in 1..n :
                  LET b == BlockStart(config, j) IN
                  /\ out[b] = <<"[[repos]]">>
                  /\ \A k \in 1..5 :
                        IsSome(RepoField(list[j], RepoKeys[k])) =>
                            IsKeyLine(out[b + Present(list[j], RepoKeys, k)], RepoKeys[k],
                                      RepoField(list[j], RepoKeys[k]))
                  /\ out[b + Present(list[j], RepoKeys, 5) + 1] = <<>>

\* a manifest with version and default-remote and two entries, one of them without a
\* field, was serialized
C30_Witness ==
    /\ probe.fn = "serialize" /\ probe.pc = "returned"
    /\ IsSome(config.version) /\ IsSome(config.default_remote) /\ IsSome(config.repos)
    /\ Len(Unwrap(config.repos)) = 2
    /\ Unwrap(config.repos)[2] = Blank
    /\ IsSome(Unwrap(config.repos)[1].tag) /\ IsSome(Unwrap(config.repos)[1].branch)

\* C32: an entry with a commit resolves to Commit(commit), and one with a tag and no
\* commit to Tag(tag), whatever remotes the repository has (no call of git failing).
C32_TargetWithoutRemote ==
    \A i \in Ids :
        (phase = "parallel" /\ Did(i, "get_remote_ref") /\ faults = 0) =>
            /\ IsSome(w[i].ent.commit) =>
                  SameRef(w[i].ref, RemoteRef("Commit", Unwrap(w[i].ent.commit)))
            /\ (w[i].ent.commit = None /\ IsSome(w[i].ent.tag)) =>
                  SameRef(w[i].ref, RemoteRef("Tag", Unwrap(w[i].ent.tag)))

\* the steps of the state machine that change the repository or talk to the remote
Steps == {"init", "add_remote", "fetch", "stash", "clean", "checkout", "stash_pop"}
Resets == {"--soft", "--mixed", "--hard"}

\* C33: within one run, each of init, add remote, fetch, stash, clean, checkout, reset
\* and stash pop is called at most once for a repository, whatever the calls return.
C33_NoRetries ==
    [](\A i \in Ids :
          /\ \A op \in Steps : Count(w[i].trace, op) <= 1
          /\ Cardinality({k \in 1..Len(w[i].trace) : w[i].trace[k] \in Resets}) <= 1)

\* a state machine that returned after a failed checkout and the stash pop that follows it
C33_Witness ==
    \E i \in Ids :
        /\ Returned(i) /\ Did(i, "stash") /\ Did(i, "stash_pop")
        /\ Did(i, "checkout") /\ ~Okd(i, "checkout")

\* the entries whose closure has taken its display index
Claimed == {i \in Ids : w[i].pc # "queued"}

\* C34: the display indices taken through the shared counter are pairwise distinct, and
\* they are 1..k when k entries have taken theirs: exactly 1..N once every entry has.
C34_UniqueIndices ==
    [](phase \in {"parallel", "done", "panicked"} =>
          /\ \A i, j \in Claimed : i # j => w[i].idx # w[j].idx
          /\ {w[i].idx : i \in Claimed} = 1..Cardinality(Claimed))

\* two closures running at once on two pool threads, the second entry having taken index 1
C34_Witness ==
    /\ phase = "parallel" /\ N = 2 /\ opts.thread_count = 2
    /\ Running(1) /\ Running(2)
    /\ w[2].idx = 1 /\ w[1].idx = 2

\* C35: while and after the entries are worked on, the shared entries are the parsed ones
\* (those the ignore list leaves), and a state machine runs in the stash mode of the command
\* unless its own is_repository call failed, which forces Hard for that entry alone.
C35_ManifestReadOnly ==
    [](phase \in {"parallel", "done", "panicked"} =>
          /\ repos = exclude_ignore(Unwrap(config.repos), opts.ignore)
          /\ \A i \in Ids :
                w[i].mode = IF Did(i, "is_repository") /\ ~Okd(i, "is_repository")
                            THEN "Hard" ELSE opts.stash_mode)

\* a finished run in which one entry was forced to Hard and had its branch filled in, next
\* to an entry synced in the mode of the command
C35_Witness ==
    /\ phase = "done" /\ N = 2 /\ opts.stash_mode # "Hard"
    /\ \E i, j \in Ids :
        /\ i # j
        /\ w[i].mode = "Hard" /\ w[i].ent.branch # repos[i].branch
        /\ w[j].mode = opts.stash_mode /\ Did(j, "is_repository")

\* C36: Normal mode with checkout: reset --hard is called only after a stash call that
\* succeeded; a failed stash is not followed by the checkout and the reset --hard.
C36_NoResetAfterFailedStash ==
    \A i \in Ids :
        (w[i].mode = "Normal" /\ ~opts.no_checkout /\ Did(i, "--hard")) => Okd(i, "stash")

\* is p the tail end of q
IsSuffix(p, q) == Len(p) <= Len(q) /\ SubSeq(q, Len(q) - Len(p) + 1, Len(q)) = p

\* C37: a state machine calls stash pop only after its own stash call saved an entry, and
\* the stash entries a repository had when the run began stay at the bottom of its stash
\* stack, in their order, throughout the run.
C37_PopsOwnStashOnly ==
    [](phase \in {"parallel", "done", "panicked"} =>
          \A i \in Ids :
              /\ Did(i, "stash_pop") => (Okd(i, "stash") /\ Before(i, "stash", "stash_pop"))
              /\ IsSome(repos[i].local) =>
                    IsSuffix(snap[PathOf(i)].stash, fs[PathOf(i)].stash))

\* a second run on a repository whose stash stack was not empty: its state machine stashed,
\* failed later, popped with success and returned, the older entry still on the stack
C37_Witness ==
    \E i \in Ids :
        /\ runNo = 2 /\ Returned(i)
        /\ snap[PathOf(i)].stash # <<>>
        /\ Okd(i, "stash_pop")
        /\ fs[PathOf(i)].stash = snap[PathOf(i)].stash

\* C38: a run that began to work on its entries and can take no further step has finished
\* every unit of work, has the total bar at N, one increment an entry, and has returned
\* every entry in the successes or in the failures.
C38_Termination ==
    phase \in {"done", "panicked"} =>
        /\ phase = "done"
        /\ \A i \in Ids : w[i].pc = "done"
        /\ totalBar = N
        /\ Len(succ) + Len(errs) = N

\* the lines the manifest and the replies of ls-files -s stand for: each line that has a
\* tab, in the order of the entries and of the lines
Listing ==
    LET toml_repos == Unwrap(config.repos)
        Of(n) == IF probe.arg[n] = None THEN <<>>
                 ELSE SelectSeq(lines(Unwrap(probe.arg[n])), LAMBDA l : IsSome(rsplit_once(l)))
        Sep(n) == IF Unwrap(toml_repos[n].local)[Len(Unwrap(toml_repos[n].local))] \in {"/", "\\"}
                  THEN <<>> ELSE <<"/">>
        Line(n, l) == LET sp == Unwrap(rsplit_once(l))
                      IN  sp.left \o <<"\t">>
                            \o norm_path(Unwrap(toml_repos[n].local) \o Sep(n) \o sp.right)
        Lines(n) == [k \in 1..Len(Of(n)) |-> Line(n, Of(n)[k])]
        F[n \in 0..Len(toml_repos)] == IF n = 0 THEN <<>> ELSE F[n - 1] \o Lines(n)
    IN  F[Len(toml_repos)]

\* C40: list_files returns, and returns nothing when the workspace directory or the
\* manifest is missing, the manifest does not load or has no repos; otherwise the lines of
\* every entry's ls-files -s that have a tab, each as left, tab, local joined to the path
\* (the separator added when local does not end with one), in the order of the manifest,
\* an entry whose ls-files failed adding none.
C40_ListFiles ==
    (probe.fn = "list_files" /\ probe.pc # "called") =>
        /\ probe.pc = "returned"
        /\ probe.ret = IF ~rootDir \/ cfgFile # "ok" \/ config.repos = None THEN <<>>
                       ELSE Listing

\* the order of the names, "." before every name
NameRank == ("." :> 0) @@ ("a" :> 1) @@ ("b" :> 2) @@ ("c" :> 3)
\* is path p before path q, name by name, a path before the paths below it
PathLess(p, q) ==
    \E k \in 1..Len(q) :
        /\ \A j \in 1..(k - 1) : j <= Len(p) /\ p[j] = q[j]
        /\ k <= Len(p) => NameRank[p[k]] < NameRank[q[k]]
        /\ k <= Len(p) + 1
Discovered == probe.fn = "discover" /\ probe.pc = "returned"
\* the working trees of the workspace, the root "." among them with --force
WorkingTrees ==
    {q \in Paths : is_repository(fs[q])}
        \cup (IF probe.arg.force /\ probe.arg.root_is_repo THEN {<<".">>} ELSE {})

\* C31: the manifest written has one entry for every working tree below the root, nested
\* ones included, the root as "." iff it is one and --force is given, and the entries are
\* in the order of their paths, "." first, however the file system lists the directories.
C31_Discovery ==
    Discovered =>
        /\ {probe.ret[k] : k \in 1..Len(probe.ret)} = WorkingTrees
        /\ Len(probe.ret) = Cardinality(WorkingTrees)
        /\ \A j, k \in 1..Len(probe.ret) : j < k => PathLess(probe.ret[j], probe.ret[k])

\* C39: a reset of the counter never takes away what the operation that is running has
\* counted, the progress computed is at most 1, and it is 0 when every repo is ignored.
C39_ResetRaceFree ==
    phase = "gui" =>
        /\ gui.running => gui.current = gui.done
        /\ gui.progress.num <= gui.progress.den
        /\ Total(gui.repos) = 0 => gui.progress.num = 0

====
